---- MODULE Spec2Model ----
(***************************************************************************)
(* Verification model of k-adk.                                            *)
(*                                                                         *)
(* Part 1: the durable session persister (session/postgres, type           *)
(* SessionPersister): the closed flag under its mutex, the bounded         *)
(* channel of asyncOp values, the single asyncWorker goroutine, the        *)
(* synchronous fallback of PersistSession / PersistEvent / DeleteSession,  *)
(* Close, and the SQL the three *Sync functions run, statement by          *)
(* statement, against a store with READ COMMITTED row locks and the        *)
(* primary key (app_name, user_id, session_id, event_order).               *)
(***************************************************************************)
EXTENDS Integers, Sequences, FiniteSets, TLC

\* ------------------------------------------------------------------ bounds
\* Largest channel capacity tried (WithAsyncBufferSize); 0 is sync mode.
MaxBuf == 1
\* Number of persister calls issued in one run, over all producers.
MaxOps == 3
\* Number of Close calls the closing caller makes, one after the other.
MaxCloses == 2

Producers == {"p1", "p2"}
Worker == "w"
Executors == Producers \cup {Worker}
Sessions == {"s1"}
\* A session persisted by an earlier run of the host: the store outlives the
\* process (initSchema is CREATE TABLE IF NOT EXISTS) and no op here names it.
OtherSession == "s0"
OpTypes == {"session", "event", "delete"}
NoLock == "none"

\* Program counters inside the three *Sync functions (one per SQL statement
\* that can block or fail on its own).
TxPcs == {"upsert", "ev_lock", "ev_order", "ev_insert", "ev_commit",
          "del_events", "del_commit"}

VARIABLES
    bufSize,     \* cap(p.asyncChan); 0 when p.asyncChan == nil (sync mode)
    closed,      \* p.closed
    chanClosed,  \* close(p.asyncChan) has run
    asyncChan,   \* p.asyncChan: the queued asyncOp values (op ids), oldest first
    pc,          \* position of each producer and of the worker
    cur,         \* the op an executor is handling (0: none)
    nextOrder,   \* local nextOrder of persistEventSync (-1: not read)
    pendDel,     \* event rows deleted by an uncommitted deleteSessionSync
    rowLock,     \* holder of the row lock of each sessions row
    sessions,    \* committed rows of table sessions (their ids)
    events,      \* committed rows of the session_events_N tables
    ops,         \* every persister call issued so far, in issue order
    enqLog,      \* ids of the ops sent on asyncChan, in send order
    execLog,     \* ids of the ops processAsyncOp has finished, in order
    cpc,         \* position of the caller of Close
    closeRet,    \* Close calls returned
    cache,       \* cached session service: ids with a session record
    cacheEvents, \* cached session service: events list of each session
    svc          \* service call a producer is in the middle of


persisterVars == <<bufSize, closed, chanClosed, asyncChan, pc, cur, nextOrder,
                   pendDel, rowLock, sessions, events, ops, enqLog, execLog,
                   cpc, closeRet>>
cacheVars == <<cache, cacheEvents, svc>>
NoSvc == [kind |-> "none", sid |-> "none"]

\* Part 3 (statement level): the Redis keys of one session and the clients
\* of RedisSessionService, one Redis command per step.
VARIABLES
    rNow,     \* wall clock (time.Now), in ticks
    rRec,     \* value of key session:app:user:id (the envelope), or NoRec
    rRecExp,  \* expiry time of that key (NoExp: none)
    rList,    \* value of key events:app:user:id, oldest first
    rListExp, \* expiry time of that key
    rIndex,   \* members of the set session:app:user
    rIdxExp,  \* expiry time of that key
    rpc,      \* position of each client inside its call
    rCall,    \* locals of the call a client is in
    rHandle,  \* the session handles returned so far (their local state maps)
              \* and the one the host holds now
    rRes,     \* what the last finished call of a client returned
    rCalls,   \* number of service calls started so far
    rCreated, \* history: the state the last successful Create was given
    rDeleted, \* history: a Delete has returned and no Create ran during or after it
    rOkEvents,\* history: ids of the events of the AppendEvent calls that returned nil
    rPushed,  \* history: ids of the events RPUSHed, in the order of the RPUSHes
    rWiped    \* history: number of removals (DEL, expiry) of the record or the list

redisVars == <<rNow, rRec, rRecExp, rList, rListExp, rIndex, rIdxExp, rpc,
               rCall, rHandle, rRes, rCalls, rCreated, rDeleted, rOkEvents,
               rPushed, rWiped>>

\* Part 4: one streaming GenerateContent call of a provider adapter, one
\* step of the iterator function per step.
VARIABLES
    gPc,      \* position inside generateStream ("idle": no call yet)
    gProto,   \* the adapter: "A" (OpenAI wire format), "B" (Anthropic)
    gStream,  \* the inputs of the call: whether the request converts, the
              \* chunks upstream will deliver, whether the stream ends in error
    gPos,     \* number of chunks received so far (chunkCount)
    gAccum,   \* the accumulator: indices of the text chunks merged so far
    gYielded, \* the items handed to the consumer so far, oldest first
    gStopped, \* the consumer has returned false from yield
    gCancelled, \* ctx has been cancelled
    gOpen,    \* the upstream stream handle (HTTP response body) is open
    gReply    \* non-streaming call: the reply of the API (NoReply: none)

streamVars == <<gPc, gProto, gStream, gPos, gAccum, gYielded, gStopped,
                gCancelled, gOpen, gReply>>

\* Part 5: the adapters' helper functions. fCall is the last call of one of
\* the functions without state; the others belong to the tool-call id map
\* of the Protocol-A model and the goroutines that normalize ids.
VARIABLES
    fCall,    \* [fn, arg, res]: function called, its argument, its result
    toolCall, \* Model.toolCall: short id -> original id
    tpc,      \* per goroutine: position in normalizeToolCallID and its id
    tProduced \* history: <<id, result>> of the normalizeToolCallID calls
              \* that returned

adapterVars == <<fCall, toolCall, tpc, tProduced>>

\* Part 6: the embedding client and the memory service.
VARIABLES
    dim,       \* OpenAICompatibleEmbedding.dim (atomic.Int32)
    eMade,     \* the client has been constructed
    ePreset,   \* Config.Dimension the client was constructed with
    epc,       \* per goroutine: position in Embed and the vector's length
    dimLog,    \* history: the values dim was changed to after construction
    eReturned, \* history: lengths of the vectors Embed returned without error
    mSvc,      \* the memory service: constructed, with an embedding model
    mRows,     \* table memory_entries
    mAdds,     \* number of AddSession calls so far
    mSearch,   \* the Search call: position, request, stages run, rows held
    iTx,       \* the AddSession call followed event by event
    iNow,      \* time.Now(), as the number of the last instant read
    iLog,      \* history: the AddSession calls followed event by event
    live,      \* the session and the event an asyncOp points at, as they are now
    refChan,   \* p.asyncChan holding asyncOp values with sess and evt references
    opLog      \* history: per op, the content at the call and the content written

embedVars == <<dim, eMade, ePreset, epc, dimLog, eReturned>>
searchVars == <<mSvc, mRows, mAdds, mSearch>>
ingestVars == <<iTx, iNow, iLog>>
memoryVars == <<embedVars, searchVars, ingestVars>>
snapVars == <<live, refChan, opLog>>

\* The variables of the parts declared after the streaming part.
laterVars == <<adapterVars, memoryVars, snapVars>>
\* The variables of the parts declared before part 5.
baseVars == <<persisterVars, cacheVars, redisVars, streamVars, snapVars>>

\* The variables of the parts a persister step does not touch.
restVars == <<redisVars, streamVars, laterVars>>

vars == <<bufSize, closed, chanClosed, asyncChan, pc, cur, nextOrder, pendDel,
          rowLock, sessions, events, ops, enqLog, execLog, cpc, closeRet,
          cache, cacheEvents, svc, restVars>>

\* ----------------------------------------------------------------- helpers
OpIds == 1..Len(ops)
SidOf(e) == ops[cur[e]].sid
RowsOf(evs, s) == {r \in evs : r.sid = s}
OrdersOf(evs, s) == {r.ord : r \in RowsOf(evs, s)}

SetMax(S) == CHOOSE x \in S : \A y \in S : y <= x

\* orderQuery: SELECT COALESCE(MAX(event_order), -1) + 1 ... WHERE session_id = s
NextOrder_FromOne(evs, s) ==
    (IF OrdersOf(evs, s) = {} THEN 0 ELSE SetMax(OrdersOf(evs, s))) + 1
NextOrder(evs, s) ==
    (IF OrdersOf(evs, s) = {} THEN -1 ELSE SetMax(OrdersOf(evs, s))) + 1

\* The `if p.closed` guard at the head of every op and of Close.
closedGuard_Missing(flag) == FALSE
closedGuard(flag) == flag

\* wg.Wait() in Close: returns once the worker has called wg.Done().
WaitDone_NoWait == TRUE
WaitDone == pc[Worker] = "exited"

\* Where asyncWorker goes after processAsyncOp returns: the error is logged
\* only and the range loop goes on.
WorkerResume_StopOnErr(failed) == IF failed THEN "exited" ELSE "recv"
WorkerResume(failed) == "recv"

\* First statement of the *Sync function chosen by op type
\* (the switch of processAsyncOp, the tail call of each op).
FirstPc(typ) ==
    CASE typ = "session" -> "upsert"
      [] typ = "event"   -> "ev_lock"
      [] typ = "delete"  -> "del_events"

NewOp(typ, s, p) ==
    [typ |-> typ, sid |-> s, by |-> p,
     path |-> "none",      \* "closed" | "queued" | "sync" | "panic"
     ret |-> "none",       \* "nil" | "closed" | "err" | "panic"
     errOf |-> 0,          \* op whose failure the returned error reports
     exec |-> "none",      \* "ok" | "err": outcome of its *Sync function
     execBy |-> "none",    \* who ran its *Sync function
     late |-> closeRet > 0 \* issued after a Close call had returned
    ]

\* ------------------------------------------------- Redis session service
\* Bounds of the Redis part.
\* Session TTL (s.ttl), in ticks of the clock.
SessionTTL == 2
\* Last tick of the clock.
MaxTime == 2
\* Number of service calls started in one run, over all clients.
MaxCalls == 3

RClients == {"c1", "c2"}
\* The one (app, user, id) the clients work on.
TheApp == "app"
TheUser == "user"
TheId == "s1"
StateKeys == {"k1", "k2"}
Absent == "absent"
NoExp == -1
\* Timestamp an event carries when the caller hands it to AppendEvent.
CallerTs == 9

\* Go values a caller puts into the state map (map[string]any): a string,
\* an int64 beyond 2^53, an empty slice; "bigfloat" is the float64 nearest
\* to the int64 and "emptymap" an empty map[string]any.
GoVals == {"str", "bigint", "emptylist"}

\* sonic.Marshal of one value of the state map.
GoToJson(v) ==
    CASE v = "str"       -> "jstr"
      [] v = "bigint"    -> "jbigint"    \* all digits of the int64
      [] v = "bigfloat"  -> "jbigfloat"  \* the digits of the rounded value
      [] v = "emptylist" -> "jarr0"      \* []
      [] v = "emptymap"  -> "jobj0"      \* {}
      [] OTHER           -> Absent
\* sonic.Unmarshal into map[string]any: every JSON number becomes a float64.
JsonToGo(j) ==
    CASE j = "jstr"      -> "str"
      [] j = "jbigint"   -> "bigfloat"
      [] j = "jbigfloat" -> "bigfloat"
      [] j = "jarr0"     -> "emptylist"
      [] j = "jobj0"     -> "emptymap"
      [] OTHER           -> Absent
\* cjson.decode followed by cjson.encode in updateStateScript: numbers are
\* Lua doubles, and an empty Lua table is encoded as {}.
Cjson(j) ==
    CASE j = "jbigint" -> "jbigfloat"
      [] j = "jarr0"   -> "jobj0"
      [] OTHER         -> j

EmptyState == [k \in StateKeys |-> Absent]
MarshalState(m) == [k \in StateKeys |-> GoToJson(m[k])]
UnmarshalState(m) == [k \in StateKeys |-> JsonToGo(m[k])]
CjsonState(m) == [k \in StateKeys |-> Cjson(m[k])]

\* storableSession; live = FALSE stands for a key that does not exist.
NoRec == [live |-> FALSE, id |-> "", app |-> "", user |-> "",
          state |-> EmptyState, lut |-> 0]
\* Session handles (redisSession values), named by the number of the call
\* that returned them; cur = 0: the host holds none yet.
\* Unissued is the entry of a handle that no call has returned.
Unissued == [k \in StateKeys |-> "none"]
NoHandle == [cur |-> 0, st |-> [h \in 1..MaxCalls |-> Unissued]]
NoEvent == [eid |-> 0, ts |-> 0]
NoCall == [kind |-> "none", n |-> 0, t0 |-> 0, ev |-> NoEvent, got |-> NoRec,
           list0 |-> <<>>, w0 |-> 0, st |-> EmptyState, h |-> 0,
           want |-> [valid |-> FALSE, st |-> EmptyState]]
\* History of Create: by is the client whose Create wrote the key last since
\* the last Delete, st the state it was given, ok that nothing has changed
\* the key since, valid that this Create has returned as well.
NotCreated == [valid |-> FALSE, ok |-> FALSE, st |-> EmptyState, by |-> "none"]
Spoiled(cr) == [cr EXCEPT !.valid = FALSE, !.ok = FALSE, !.st = EmptyState]
NoRes == [kind |-> "none", n |-> 0, ret |-> "none", id |-> "",
          state |-> EmptyState, events |-> <<>>, ids |-> {}]

\* The Redis keys and the clients before the first call.
RInit ==
    /\ rNow = 0
    /\ rRec = NoRec /\ rRecExp = NoExp
    /\ rList = <<>> /\ rListExp = NoExp
    /\ rIndex = {} /\ rIdxExp = NoExp
    /\ rpc = [c \in RClients |-> "idle"]
    /\ rCall = [c \in RClients |-> NoCall]
    /\ rHandle = NoHandle
    /\ rRes = [c \in RClients |-> NoRes]
    /\ rCalls = 0
    /\ rCreated = NotCreated
    /\ rDeleted = FALSE
    /\ rOkEvents = {}
    /\ rPushed = <<>>
    /\ rWiped = 0

\* ----------------------------------------- provider adapters, streaming
\* Largest number of chunks upstream delivers in one call.
MaxChunks == 3
Protocols == {"A", "B"}
\* A chunk (Protocol-A) or stream event (Protocol-B): text says that it
\* carries a non-empty text delta, fits that the accumulator accepts it.
Chunks == [text : BOOLEAN, fits : BOOLEAN]
RECURSIVE SeqsUpTo(_, _)
SeqsUpTo(S, n) ==
    IF n = 0 THEN {<<>>}
    ELSE LET shorter == SeqsUpTo(S, n - 1)
         IN  shorter \cup {Append(s, x) : s \in shorter, x \in S}
NoStream == [params |-> TRUE, chunks |-> <<>>, err |-> FALSE]
\* The item (nil, err).
ErrItem == [resp |-> FALSE, partial |-> FALSE, tc |-> FALSE, text |-> <<>>]
\* The response yielded for the text delta of chunk i.
PartialResponse(i) ==
    [resp |-> TRUE, partial |-> TRUE, tc |-> FALSE, text |-> <<i>>]
\* The aggregated response built from the accumulator after the loop.
FinalResponse_Partial(acc) ==
    [resp |-> TRUE, partial |-> TRUE, tc |-> FALSE, text |-> acc]
FinalResponse(acc) ==
    [resp |-> TRUE, partial |-> FALSE, tc |-> TRUE, text |-> acc]
\* stream.Err() after the loop.
StreamErr_Ignored(s) == FALSE
StreamErr(s) == s.err
\* Whether the accumulator's failure on a chunk ends the call: Protocol-A
\* ignores the result of accum.AddChunk, Protocol-B returns the error of
\* message.Accumulate.
AccumulateFails(p, chunk) == p = "B" /\ ~chunk.fits

\* The reply of a non-streaming request: err says that the API call
\* failed, n is the number of choices (Protocol-A) or content blocks
\* (Protocol-B) of the reply.
NoReply == [got |-> FALSE, err |-> FALSE, n |-> 0]
Replies == [got : {TRUE}, err : BOOLEAN, n : 0..MaxChunks]
\* The item (nil, err) for one of the adapters' named errors.
NamedErr(name) ==
    [resp |-> FALSE, partial |-> FALSE, tc |-> FALSE, text |-> <<name>>]
\* convertResponse and the yield that follows it: Protocol-A returns
\* ErrNoChoicesInResponse for a reply without choices and else converts
\* the first choice; Protocol-B converts all content blocks and has no
\* error result.
convertResponse(p, n) ==
    IF p = "A"
    THEN IF n = 0 THEN NamedErr("ErrNoChoicesInResponse")
         ELSE [resp |-> TRUE, partial |-> FALSE, tc |-> TRUE, text |-> <<1>>]
    ELSE [resp |-> TRUE, partial |-> FALSE, tc |-> TRUE,
          text |-> [i \in 1..n |-> i]]

GInit ==
    /\ gPc = "idle"
    /\ gProto = "A"
    /\ gStream = NoStream
    /\ gPos = 0
    /\ gAccum = <<>>
    /\ gYielded = <<>>
    /\ gStopped = FALSE
    /\ gCancelled = FALSE
    /\ gOpen = FALSE
    /\ gReply = NoReply

\* ------------------------------------------- adapters, helper functions
\* Longest message list given to repairMessageHistory.
MaxMsgs == 3
ToolIds == {"A", "B"}
\* An Anthropic MessageParam: its role and its content blocks, as the ids
\* of its tool_use blocks, the ids of its tool_result blocks, and whether
\* it has other blocks (text, image). convertContentToMessage builds no
\* message without blocks.
Messages ==
    {m \in [role : {"user", "assistant"}, uses : SUBSET ToolIds,
            results : SUBSET ToolIds, other : BOOLEAN] :
        m.other \/ m.uses # {} \/ m.results # {}}
\* filterToolUse(msg, allowedIDs): drop the tool_use blocks whose id is not
\* allowed, keep every other block.
filterToolUse_KeepAll(msg, allowed) == msg
filterToolUse(msg, allowed) == [msg EXCEPT !.uses = msg.uses \cap allowed]
\* A message counts as empty whatever blocks it has.
hasContent_Never(msg) == FALSE
hasContent(msg) == msg.other \/ msg.uses # {} \/ msg.results # {}
\* The loop of repairMessageHistory from index i on, with the result so far.
RECURSIVE repairFrom(_, _, _)
repairFrom(messages, i, result) ==
    IF i > Len(messages) THEN result
    ELSE LET msg == messages[i]
             matched == IF i + 1 <= Len(messages)
                           /\ messages[i + 1].role = "user"
                        THEN messages[i + 1].results
                        ELSE {}
             filteredMsg == filterToolUse(msg, matched)
         IN  IF msg.role = "assistant" /\ msg.uses # {}
             THEN repairFrom(messages, i + 1,
                             IF hasContent(filteredMsg)
                             THEN Append(result, filteredMsg) ELSE result)
             ELSE repairFrom(messages, i + 1, Append(result, msg))
\* The loop started at the second message.
repairMessageHistory_FromSecond(messages) == repairFrom(messages, 2, <<>>)
repairMessageHistory(messages) == repairFrom(messages, 1, <<>>)

\* Protocol-A tool-call ids. An id is its text, as a prefix and a body, and
\* its length in bytes.
maxToolCallIDLength == 40
\* Ids that need no shortening: the empty id and one of exactly 40 bytes.
FittingIds ==
    {[pre |-> "", body |-> <<>>, len |-> 0],
     [pre |-> "call_", body |-> <<"a">>, len |-> maxToolCallIDLength]}
\* Ids over the limit: by one byte, and by many.
LongIds ==
    {[pre |-> "call_", body |-> <<"b">>, len |-> maxToolCallIDLength + 1],
     [pre |-> "call_", body |-> <<"c">>, len |-> maxToolCallIDLength + 20]}
\* hex(sha256(id)) cut to n characters. The digest is modelled by the text
\* it was computed from: equal ids give equal digests, and the model takes
\* the cut SHA-256 digests of different ids to differ.
sha256hex(id, n) == [of |-> <<id.pre, id.body, id.len>>, n |-> n]
\* shortID of normalizeToolCallID: "tc_" and the first 37 hex characters.
shortID(id) ==
    [pre |-> "tc_", body |-> <<sha256hex(id, maxToolCallIDLength - 3)>>,
     len |-> Len(<<"t", "c", "_">>) + (maxToolCallIDLength - 3)]
\* The ids normalization is called with: a caller may also pass in the
\* short form of a long id.
ToolCallIds == FittingIds \cup LongIds \cup {shortID(id) : id \in LongIds}
\* Goroutines converting requests on one Model.
TGo == {"g1", "g2"}
TIdle == [at |-> "idle", id |-> [pre |-> "", body |-> <<>>, len |-> 0]]
\* denormalizeToolCallID with the map as it is now.
denormalizeToolCallID(sid) ==
    IF sid \in DOMAIN toolCall THEN toolCall[sid] ELSE sid

\* Protocol-B tool-use ids: strings, as sequences of characters.
MaxIdLen == 2
\* The characters ids are made of in the model, with their byte values:
\* some of the class [a-zA-Z0-9_-], and some outside of it.
CharCode ==
    [ch \in {"a", "Z", "9", "_", "-", "!", " ", "\n"} |->
        CASE ch = "a" -> 97 [] ch = "Z" -> 90 [] ch = "9" -> 57
          [] ch = "_" -> 95 [] ch = "-" -> 45 [] ch = "!" -> 33
          [] ch = " " -> 32 [] ch = "\n" -> 10]
IdChars == DOMAIN CharCode
HexDigits ==
    <<"0", "1", "2", "3", "4", "5", "6", "7",
      "8", "9", "a", "b", "c", "d", "e", "f">>
\* The characters of [a-zA-Z0-9_-] that occur in the model.
ToolIdClass ==
    {"a", "Z", "_", "-", "t", "o", "l", "u"} \cup
    {HexDigits[i] : i \in 1..Len(HexDigits)}
\* anthropicToolIDPattern.MatchString(id), ^[a-zA-Z0-9_-]+$: one character
\* or more, all of the class; in Go $ matches at the end of the text only.
MatchesToolIDPattern(id) ==
    Len(id) > 0 /\ \A i \in 1..Len(id) : id[i] \in ToolIdClass
\* Bytes of the digest that sanitizeToolID keeps: hash[:16].
DigestBytes == 16
\* sha256.Sum256(id)[:16]. The digest is modelled by the bytes of the id,
\* filled with zero bytes: equal ids give equal digests, and the model takes
\* the digests of different ids to differ.
sha256_16(id) ==
    [i \in 1..DigestBytes |-> IF i <= Len(id) THEN CharCode[id[i]] ELSE 0]
\* hex.EncodeToString: two lower-case hex digits per byte.
RECURSIVE EncodeToString(_)
EncodeToString(bytes) ==
    IF bytes = <<>> THEN <<>>
    ELSE <<HexDigits[(bytes[1] \div 16) + 1], HexDigits[(bytes[1] % 16) + 1]>>
         \o EncodeToString(Tail(bytes))
sanitizeToolID_Identity(id) == id
sanitizeToolID(id) ==
    IF MatchesToolIDPattern(id) THEN id
    ELSE <<"t", "o", "o", "l", "u", "_">> \o EncodeToString(sha256_16(id))

\* Protocol-A schemas. A schema node has a type, says whether it has a
\* properties field, and has at most one child: one property (kind
\* "properties"), the items schema, or one alternative of anyOf.
MaxDepth == 2
JsonTypes == {"object", "array", "string"}
GenaiTypes == {"TypeObject", "TypeArray", "TypeString"}
\* A nil *genai.Schema, as the value of a property.
NilSchema == [type |-> "nil", kind |-> "leaf", hasProps |-> FALSE, sub |-> <<>>]
\* The schemas of nesting depth d at most with types T; nils are further
\* values a child may have.
RECURSIVE SchemaNodes(_, _, _)
SchemaNodes(T, nils, d) ==
    [type : T, kind : {"leaf"}, hasProps : BOOLEAN, sub : {<<>>}] \cup
    (IF d = 0 THEN {}
     ELSE LET children == SchemaNodes(T, nils, d - 1)
          IN  [type : T, kind : {"properties"}, hasProps : {TRUE},
               sub : {<<c>> : c \in children \cup nils}] \cup
              [type : T, kind : {"items", "anyOf"}, hasProps : BOOLEAN,
               sub : {<<c>> : c \in children}])
schemaTypeToString(t) ==
    CASE t = "TypeString" -> "string"
      [] t = "TypeArray" -> "array"
      [] t = "TypeObject" -> "object"
      [] OTHER -> "string"
\* ensureObjectProperties(schema), as the map it leaves behind.
RECURSIVE ensureObjectProperties(_)
ensureObjectProperties(schema) ==
    LET withProps ==
            IF schema.type = "object" /\ ~schema.hasProps
            THEN [schema EXCEPT !.hasProps = TRUE] ELSE schema
    IN  IF schema.kind \in {"properties", "items"}
        THEN [withProps EXCEPT
                 !.sub = <<ensureObjectProperties(schema.sub[1])>>]
        ELSE withProps
\* convertToFunctionParams(params) for params that is a map[string]any.
convertToFunctionParams(params) == ensureObjectProperties(params)
\* convertSchema(schema): type, then properties when there is one or more,
\* then items; no other field of the schema node is looked at.
RECURSIVE convertSchema(_)
convertSchema(schema) ==
    IF schema = NilSchema
    THEN [type |-> "object", kind |-> "leaf", hasProps |-> TRUE, sub |-> <<>>]
    ELSE IF schema.kind \in {"properties", "items"}
         THEN [type |-> schemaTypeToString(schema.type), kind |-> schema.kind,
               hasProps |-> schema.kind = "properties",
               sub |-> <<convertSchema(schema.sub[1])>>]
         ELSE [type |-> schemaTypeToString(schema.type), kind |-> "leaf",
               hasProps |-> FALSE, sub |-> <<>>]

\* ------------------------------------------------------ embedding client
\* Goroutines calling Embed on one client.
EGo == {"e1", "e2"}
\* Config.Dimension values: not set, and set.
Presets == {0, 3}
\* Lengths of the vector in data[0].embedding of a reply.
VecLens == {0, 2, 3}
EIdle == [at |-> "idle", len |-> 0]
\* The zero value of the client, before NewOpenAICompatibleEmbedding.
EInit ==
    /\ dim = 0
    /\ eMade = FALSE
    /\ ePreset = 0
    /\ epc = [g \in EGo |-> EIdle]
    /\ dimLog = <<>>
    /\ eReturned = {}

\* -------------------------------------------------------- memory service
\* Most AddSession calls in a behaviour.
MaxSessions == 3
\* LIMIT 10 of the three queries.
searchLimit == 10
\* (app_name, user_id) pairs: a user, another user of the same app, and
\* the same user id under another app.
Tenants == {<<"app1", "u1">>, <<"app1", "u2">>, <<"app2", "u1">>}
\* Search queries: the empty one and a word; a row matches the word in the
\* full-text sense or does not.
Queries == {"", "q"}
\* The sessions ingested: one event with text, matching "q" or not, with
\* an embedding or not; and more matching events than a query returns.
SessionKinds ==
    [n : {1}, match : BOOLEAN, embedded : BOOLEAN] \cup
    {[n |-> searchLimit + 1, match |-> TRUE, embedded |-> TRUE]}
\* The rows AddSession writes for session number sid with n events. match:
\* the text matches "q"; emb: the embedding column is not null.
SessionRows(app, user, sid, n, match, emb) ==
    {[app |-> app, user |-> user, sid |-> sid, eid |-> i, match |-> match,
      emb |-> emb, ts |-> (sid - 1) * (searchLimit + 1) + i] : i \in 1..n}
\* ORDER BY ... LIMIT 10. Rows of equal text have equal rank and the model
\* takes equal distance too, so each order is the order of timestamp DESC.
Limited(rows) ==
    {r \in rows : Cardinality({x \in rows : x.ts > r.ts}) < searchLimit}
\* WHERE app_name = $1 AND user_id = $2 AND embedding IS NOT NULL.
searchByVector(req) ==
    Limited({r \in mRows : r.app = req.app /\ r.user = req.user /\ r.emb})
\* The full-text query with no condition on app_name and user_id.
searchByText_AllTenants(req) ==
    Limited({r \in mRows : r.match /\ req.query = "q"})
\* WHERE app_name = $1 AND user_id = $2 AND to_tsvector(...) @@
\* plainto_tsquery('english', $3).
searchByText(req) ==
    Limited({r \in mRows : r.app = req.app /\ r.user = req.user
                             /\ r.match /\ req.query = "q"})
\* WHERE app_name = $1 AND user_id = $2 ORDER BY timestamp DESC.
searchRecent(req) ==
    Limited({r \in mRows : r.app = req.app /\ r.user = req.user})
Requests ==
    {[app |-> tn[1], user |-> tn[2], query |-> q] : tn \in Tenants, q \in Queries}
NoSearch ==
    [at |-> "idle", req |-> [app |-> "", user |-> "", query |-> ""],
     ran |-> <<>>, rows |-> {}, err |-> FALSE]
\* No service, the table empty.
MInit ==
    /\ mSvc = [made |-> FALSE, model |-> FALSE]
    /\ mRows = {}
    /\ mAdds = 0
    /\ mSearch = NoSearch

\* ------------------------------------------ AddSession, event by event
\* Most events in a session, and most AddSession calls followed.
MaxEvents == 2
MaxIngests == 2
\* An event of a session: whether it has an ID and a Timestamp of its own,
\* and whether its content has text.
IngestEvents == [hasId : BOOLEAN, hasTs : BOOLEAN, text : BOOLEAN]
IngestSessions == SeqsUpTo(IngestEvents, MaxEvents) \ {<<>>}
\* What happens to the row of an event: nothing, sonic.Marshal fails,
\* ExecContext fails before the statement reaches the server (driver), or
\* PostgreSQL reports an error for the statement.
RowFaults == {"ok", "marshal", "client", "server"}
NoTx ==
    [at |-> "idle", sess |-> <<>>, i |-> 0, aborted |-> FALSE, writes |-> {},
     faults |-> <<>>, keys |-> <<>>]
\* The events of the model's session have the timestamps 1..MaxEvents; the
\* clock starts after them.
IInit ==
    /\ iTx = NoTx
    /\ iNow = MaxEvents
    /\ iLog = <<>>
\* timestamp := event.Timestamp, time.Now() when that is zero (the instant
\* after the last one read).
TimestampOf(ev, i) == IF ev.hasTs THEN i ELSE iNow + 1
\* eventID := event.ID, fmt.Sprintf("%s-%d", event.InvocationID,
\* timestamp.UnixNano()) when that is empty.
EventIDOf(ev, i) ==
    IF ev.hasId THEN [own |-> TRUE, n |-> i]
    ELSE [own |-> FALSE, n |-> TimestampOf(ev, i)]
\* The row of event i of the session, with the columns of the unique key.
IngestRow(ev, i) ==
    [app |-> "app1", user |-> "u1", sid |-> 0, eid |-> EventIDOf(ev, i),
     match |-> FALSE, emb |-> FALSE, ts |-> TimestampOf(ev, i)]
KeyOf(r) == <<r.app, r.user, r.sid, r.eid>>
\* INSERT ... ON CONFLICT (app_name, user_id, session_id, event_id) DO
\* UPDATE SET content, content_text: a row of the same key stays one row.
Upsert(rows, r) ==
    IF \E x \in rows : KeyOf(x) = KeyOf(r) THEN rows ELSE rows \cup {r}
RECURSIVE UpsertAll(_, _)
UpsertAll(rows, writes) ==
    IF writes = {} THEN rows
    ELSE LET r == CHOOSE x \in writes : \A y \in writes : x.ts <= y.ts
         IN  UpsertAll(Upsert(rows, r), writes \ {r})

NoFCall == [fn |-> "none", arg |-> <<>>, res |-> <<>>]
\* The helper functions before any call; toolCall: make(map[string]string).
FInit ==
    /\ fCall = NoFCall
    /\ toolCall = [sid \in {} |-> sid]
    /\ tpc = [g \in TGo |-> TIdle]
    /\ tProduced = {}

\* ------------------------------------------------------------------- Init
\* No op has been issued; the session and the event are as created.
SInit ==
    /\ live = [session |-> 0, event |-> 0]
    /\ refChan = <<>>
    /\ opLog = <<>>

Init ==
    /\ RInit
    /\ GInit
    /\ FInit
    /\ EInit
    /\ MInit
    /\ IInit
    /\ SInit
    /\ bufSize \in 0..MaxBuf
    /\ closed = FALSE
    /\ chanClosed = FALSE
    /\ asyncChan = <<>>
    /\ pc = [e \in Executors |->
                IF e = Worker THEN (IF bufSize > 0 THEN "recv" ELSE "absent")
                ELSE "idle"]
    /\ cur = [e \in Executors |-> 0]
    /\ nextOrder = [e \in Executors |-> -1]
    /\ pendDel = [e \in Executors |-> {}]
    /\ rowLock = [s \in Sessions |-> NoLock]
    /\ sessions = {OtherSession}
    /\ events = {[sid |-> OtherSession, ord |-> 0, id |-> 0]}
    /\ ops = <<>>
    /\ enqLog = <<>>
    /\ execLog = <<>>
    /\ cpc = "idle"
    /\ closeRet = 0
    /\ cache = {}
    /\ cacheEvents = [s \in Sessions |-> <<>>]
    /\ svc = [p \in Producers |-> NoSvc]

\* ------------------------------------------------- producer side of an op
\* Head of PersistSession / PersistEvent / DeleteSession: lock mu, test
\* closed, unlock.  A closed persister returns the closed error at once.
Enter(p, typ, s) ==
    /\ pc[p] = "idle"
    /\ Len(ops) < MaxOps
    /\ LET id == Len(ops) + 1 IN
       IF closedGuard(closed)
       THEN /\ ops' = Append(ops, [NewOp(typ, s, p) EXCEPT
                          !.path = "closed", !.ret = "closed"])
            /\ UNCHANGED <<pc, cur>>
       ELSE /\ ops' = Append(ops, NewOp(typ, s, p))
            /\ pc' = [pc EXCEPT ![p] = "select"]
            /\ cur' = [cur EXCEPT ![p] = id]
    /\ UNCHANGED <<bufSize, closed, chanClosed, asyncChan, nextOrder, pendDel,
                   rowLock, sessions, events, enqLog, execLog, cpc, closeRet>>

PersistSession(p, s) == Enter(p, "session", s) /\ UNCHANGED <<cacheVars, restVars>>
PersistEvent(p, s) == Enter(p, "event", s) /\ UNCHANGED <<cacheVars, restVars>>
DeleteSession(p, s) == Enter(p, "delete", s) /\ UNCHANGED <<cacheVars, restVars>>

\* `if p.asyncChan != nil { select { case p.asyncChan <- op: return nil
\*  default: warn } }; return p.xxxSync(...)`.
\* A send on a closed channel panics, whether or not the buffer has room.
\* With fallback = FALSE a full queue drops the op instead of running it.
TrySendWith(p, fallback) ==
    /\ pc[p] = "select"
    /\ LET id == cur[p] IN
       IF bufSize > 0 /\ chanClosed
       THEN /\ ops' = [ops EXCEPT ![id].path = "panic", ![id].ret = "panic"]
            /\ pc' = [pc EXCEPT ![p] = "panicked"]
            /\ cur' = [cur EXCEPT ![p] = 0]
            /\ UNCHANGED <<asyncChan, enqLog>>
       ELSE IF bufSize > 0 /\ Len(asyncChan) < bufSize
       THEN /\ asyncChan' = Append(asyncChan, id)
            /\ enqLog' = Append(enqLog, id)
            /\ ops' = [ops EXCEPT ![id].path = "queued", ![id].ret = "nil"]
            /\ pc' = [pc EXCEPT ![p] = "idle"]
            /\ cur' = [cur EXCEPT ![p] = 0]
       ELSE IF fallback
       THEN /\ ops' = [ops EXCEPT ![id].path = "sync"]
            /\ pc' = [pc EXCEPT ![p] = FirstPc(ops[id].typ)]
            /\ UNCHANGED <<asyncChan, enqLog, cur>>
       ELSE /\ ops' = [ops EXCEPT ![id].path = "dropped", ![id].ret = "nil"]
            /\ pc' = [pc EXCEPT ![p] = "idle"]
            /\ cur' = [cur EXCEPT ![p] = 0]
            /\ UNCHANGED <<asyncChan, enqLog>>
    /\ UNCHANGED <<bufSize, closed, chanClosed, nextOrder, pendDel, rowLock,
                   sessions, events, execLog, cpc, closeRet>>
    /\ UNCHANGED <<cacheVars, restVars>>

TrySend_DropOnFull(p) == TrySendWith(p, FALSE)
TrySend(p) == TrySendWith(p, TRUE)

\* ------------------------------------------------------------ the worker
\* asyncWorker: `for op := range p.asyncChan { p.processAsyncOp(op) }`,
\* then the deferred wg.Done().
asyncWorker ==
    /\ pc[Worker] = "recv"
    /\ IF asyncChan # <<>>
       THEN /\ asyncChan' = Tail(asyncChan)
            /\ cur' = [cur EXCEPT ![Worker] = Head(asyncChan)]
            /\ pc' = [pc EXCEPT ![Worker] = FirstPc(ops[Head(asyncChan)].typ)]
       ELSE /\ chanClosed
            /\ pc' = [pc EXCEPT ![Worker] = "exited"]
            /\ UNCHANGED <<asyncChan, cur>>
    /\ UNCHANGED <<bufSize, closed, chanClosed, nextOrder, pendDel, rowLock,
                   sessions, events, ops, enqLog, execLog, cpc,
                   closeRet>>
    /\ UNCHANGED <<cacheVars, restVars>>

\* End of a *Sync function run by executor e with outcome ok: locks and
\* uncommitted work are released (commit or the deferred Rollback); the
\* producer returns the function's error, the worker logs it
\* (processAsyncOp) and goes back to its loop.
Finish(e, ok) ==
    LET id == cur[e] IN
    /\ ops' = [ops EXCEPT
                  ![id].exec = IF ok THEN "ok" ELSE "err",
                  ![id].execBy = e,
                  ![id].ret = IF e = Worker THEN @
                              ELSE IF ok THEN "nil" ELSE "err",
                  ![id].errOf = IF e = Worker \/ ok THEN @ ELSE id]
    /\ pc' = [pc EXCEPT ![e] = IF e = Worker THEN WorkerResume(~ok) ELSE "idle"]
    /\ cur' = [cur EXCEPT ![e] = 0]
    /\ nextOrder' = [nextOrder EXCEPT ![e] = -1]
    /\ pendDel' = [pendDel EXCEPT ![e] = {}]
    /\ rowLock' = [s \in Sessions |-> IF rowLock[s] = e THEN NoLock ELSE rowLock[s]]
    /\ execLog' = IF e = Worker THEN Append(execLog, id) ELSE execLog

\* ------------------------------------------------------------ the store
\* Any statement of a *Sync function may fail (connection error, the
\* 30 s context deadline of processAsyncOp, a deadlock abort): the
\* transaction is rolled back and the function returns the error.
TxFail(e) ==
    /\ pc[e] \in TxPcs
    /\ Finish(e, FALSE)
    /\ UNCHANGED <<bufSize, closed, chanClosed, asyncChan, sessions, events,
                   enqLog, cpc, closeRet>>
    /\ UNCHANGED <<cacheVars, restVars>>

\* persistSessionSync: one INSERT ... ON CONFLICT DO UPDATE statement.  It
\* needs the row lock of an existing row.
persistSessionSync(e) ==
    /\ pc[e] = "upsert"
    /\ rowLock[SidOf(e)] = NoLock
    /\ sessions' = sessions \cup {SidOf(e)}
    /\ Finish(e, TRUE)
    /\ UNCHANGED <<bufSize, closed, chanClosed, asyncChan, events, enqLog,
                   cpc, closeRet>>
    /\ UNCHANGED <<cacheVars, restVars>>

\* persistEventSync, BeginTx and lockQuery: SELECT id FROM sessions ... FOR
\* UPDATE.  With no such row the Scan error is ignored and nothing is locked.
persistEventSync_lock(e) ==
    /\ pc[e] = "ev_lock"
    /\ IF SidOf(e) \in sessions
       THEN /\ rowLock[SidOf(e)] = NoLock
            /\ rowLock' = [rowLock EXCEPT ![SidOf(e)] = e]
       ELSE UNCHANGED rowLock
    /\ pc' = [pc EXCEPT ![e] = "ev_order"]
    /\ UNCHANGED <<bufSize, closed, chanClosed, asyncChan, cur, nextOrder,
                   pendDel, sessions, events, ops, enqLog, execLog, cpc, closeRet>>
    /\ UNCHANGED <<cacheVars, restVars>>

\* persistEventSync, orderQuery: reads the committed rows only.
persistEventSync_order(e) ==
    /\ pc[e] = "ev_order"
    /\ nextOrder' = [nextOrder EXCEPT ![e] = NextOrder(events, SidOf(e))]
    /\ pc' = [pc EXCEPT ![e] = "ev_insert"]
    /\ UNCHANGED <<bufSize, closed, chanClosed, asyncChan, cur, pendDel,
                   rowLock, sessions, events, ops, enqLog, execLog, cpc, closeRet>>
    /\ UNCHANGED <<cacheVars, restVars>>

\* Primary key of the events tables.
KeyCommitted(e) == nextOrder[e] \in OrdersOf(events, SidOf(e))
KeyBeingDeleted(e) ==
    \E d \in Executors \ {e} :
        \E r \in pendDel[d] : r.sid = SidOf(e) /\ r.ord = nextOrder[e]
KeyBeingInserted(e) ==
    \E o \in Executors \ {e} :
        /\ pc[o] = "ev_commit"
        /\ SidOf(o) = SidOf(e)
        /\ nextOrder[o] = nextOrder[e]

\* persistEventSync, insertQuery.  A committed row with the same key is a
\* duplicate-key error; a key another open transaction is inserting or
\* deleting makes the statement wait for that transaction.
persistEventSync_insert(e) ==
    /\ pc[e] = "ev_insert"
    /\ IF KeyCommitted(e) /\ ~KeyBeingDeleted(e)
       THEN /\ Finish(e, FALSE)
       ELSE /\ ~KeyCommitted(e)
            /\ ~KeyBeingInserted(e)
            /\ pc' = [pc EXCEPT ![e] = "ev_commit"]
            /\ UNCHANGED <<cur, nextOrder, pendDel, rowLock, ops, execLog>>
    /\ UNCHANGED <<bufSize, closed, chanClosed, asyncChan, sessions, events,
                   enqLog, cpc, closeRet>>
    /\ UNCHANGED <<cacheVars, restVars>>

\* persistEventSync, updateQuery and Commit: UPDATE sessions SET
\* last_update_time needs the row lock when the row exists; the commit makes
\* the inserted row visible and releases the lock.
persistEventSync_commit(e) ==
    /\ pc[e] = "ev_commit"
    /\ SidOf(e) \in sessions => rowLock[SidOf(e)] \in {NoLock, e}
    /\ events' = events \cup
                    {[sid |-> SidOf(e), ord |-> nextOrder[e], id |-> cur[e]]}
    /\ Finish(e, TRUE)
    /\ UNCHANGED <<bufSize, closed, chanClosed, asyncChan, sessions, enqLog,
                   cpc, closeRet>>
    /\ UNCHANGED <<cacheVars, restVars>>

\* deleteSessionSync, BeginTx and eventsQuery: DELETE FROM events of the
\* session; it sees the committed rows and waits for rows another open
\* transaction is deleting.
deleteSessionSync_events(e) ==
    /\ pc[e] = "del_events"
    /\ \A o \in Executors \ {e} :
          pendDel[o] \cap RowsOf(events, SidOf(e)) = {}
    /\ pendDel' = [pendDel EXCEPT ![e] = RowsOf(events, SidOf(e))]
    /\ pc' = [pc EXCEPT ![e] = "del_commit"]
    /\ UNCHANGED <<bufSize, closed, chanClosed, asyncChan, cur, nextOrder,
                   rowLock, sessions, events, ops, enqLog, execLog, cpc, closeRet>>
    /\ UNCHANGED <<cacheVars, restVars>>

\* deleteSessionSync, sessionQuery and Commit: DELETE FROM sessions needs
\* the row lock; the commit removes the session row and the event rows.
deleteSessionSync_commit(e) ==
    /\ pc[e] = "del_commit"
    /\ rowLock[SidOf(e)] = NoLock
    /\ sessions' = sessions \ {SidOf(e)}
    /\ events' = events \ pendDel[e]
    /\ Finish(e, TRUE)
    /\ UNCHANGED <<bufSize, closed, chanClosed, asyncChan, enqLog, cpc, closeRet>>
    /\ UNCHANGED <<cacheVars, restVars>>

\* ------------------------------------------------------------------ Close
\* Close, first half: under mu, return nil when already closed, else set
\* closed.
Close_flag ==
    /\ cpc = "idle"
    /\ closeRet < MaxCloses
    /\ IF closedGuard(closed)
       THEN /\ closeRet' = closeRet + 1
            /\ UNCHANGED <<closed, cpc>>
       ELSE /\ closed' = TRUE
            /\ cpc' = "flagged"
            /\ UNCHANGED closeRet
    /\ UNCHANGED <<bufSize, chanClosed, asyncChan, pc, cur, nextOrder,
                   pendDel, rowLock, sessions, events, ops, enqLog, execLog>>
    /\ UNCHANGED <<cacheVars, restVars>>

\* Close, `if p.asyncChan != nil { close(p.asyncChan) ...`.
Close_chan ==
    /\ cpc = "flagged"
    /\ IF bufSize > 0
       THEN /\ chanClosed' = TRUE
            /\ cpc' = "waiting"
            /\ UNCHANGED closeRet
       ELSE /\ cpc' = "idle"
            /\ closeRet' = closeRet + 1
            /\ UNCHANGED chanClosed
    /\ UNCHANGED <<bufSize, closed, asyncChan, pc, cur, nextOrder, pendDel,
                   rowLock, sessions, events, ops, enqLog, execLog>>
    /\ UNCHANGED <<cacheVars, restVars>>

\* Close, `p.wg.Wait()` and return nil.
Close_wait ==
    /\ cpc = "waiting"
    /\ WaitDone
    /\ cpc' = "idle"
    /\ closeRet' = closeRet + 1
    /\ UNCHANGED <<bufSize, closed, chanClosed, asyncChan, pc, cur, nextOrder,
                   pendDel, rowLock, sessions, events, ops, enqLog, execLog>>
    /\ UNCHANGED <<cacheVars, restVars>>

\* ---------------------------------------------------------- specification
Exec(e) ==
    \/ persistSessionSync(e)
    \/ persistEventSync_lock(e)
    \/ persistEventSync_order(e)
    \/ persistEventSync_insert(e)
    \/ persistEventSync_commit(e)
    \/ deleteSessionSync_events(e)
    \/ deleteSessionSync_commit(e)

Common ==
    \/ \E p \in Producers : TrySend(p)
    \/ asyncWorker
    \/ \E e \in Executors : Exec(e)
    \/ \E e \in Executors : TxFail(e)
    \/ Close_flag
    \/ Close_chan
    \/ Close_wait

Next ==
    \/ \E p \in Producers, s \in Sessions : PersistSession(p, s)
    \/ \E p \in Producers, s \in Sessions : PersistEvent(p, s)
    \/ \E p \in Producers, s \in Sessions : DeleteSession(p, s)
    \/ Common

Spec == Init /\ [][Next]_vars

\* ---------------------------------------------- cached session service
\* Part 2: RedisSessionService in front of the persister (hybrid mode).
\* The host goroutine that owns the session calls the service; each call
\* changes the cache and then hands the mutation to the persister.
Host == "p1"

\* Create: SET the session record, SADD it to the index.  The events list
\* of the id is not touched.
Create(p, s) ==
    /\ pc[p] = "idle" /\ svc[p] = NoSvc
    /\ Len(ops) < MaxOps
    /\ cache' = cache \cup {s}
    /\ svc' = [svc EXCEPT ![p] = [kind |-> "session", sid |-> s]]
    /\ UNCHANGED cacheEvents
    /\ UNCHANGED <<persisterVars, restVars>>

\* AppendEvent: RPUSH the event, then GET the session record; without a
\* record the call returns the error, else it rewrites the record.  A list
\* entry is the id of the PersistEvent op the event is handed over with, 0
\* for an event whose AppendEvent returned the error.
AppendEvent(p, s) ==
    /\ pc[p] = "idle" /\ svc[p] = NoSvc
    /\ Len(ops) < MaxOps
    /\ Len(cacheEvents[s]) < MaxOps
    /\ cacheEvents' = [cacheEvents EXCEPT ![s] =
                          Append(@, IF s \in cache THEN Len(ops) + 1 ELSE 0)]
    /\ svc' = IF s \in cache
              THEN [svc EXCEPT ![p] = [kind |-> "event", sid |-> s]]
              ELSE svc
    /\ UNCHANGED cache
    /\ UNCHANGED <<persisterVars, restVars>>

\* Delete: one pipeline DEL record, DEL events list, SREM index.
Delete(p, s) ==
    /\ pc[p] = "idle" /\ svc[p] = NoSvc
    /\ Len(ops) < MaxOps
    /\ cache' = cache \ {s}
    /\ cacheEvents' = [cacheEvents EXCEPT ![s] = <<>>]
    /\ svc' = [svc EXCEPT ![p] = [kind |-> "delete", sid |-> s]]
    /\ UNCHANGED <<persisterVars, restVars>>

\* The fan-out at the end of Create / AppendEvent / Delete when a persister
\* is configured (WithPersister): persist_session, persist_event,
\* delete_session respectively.
FanOut(p) ==
    /\ svc[p] # NoSvc
    /\ Enter(p, svc[p].kind, svc[p].sid)
    /\ svc' = [svc EXCEPT ![p] = NoSvc]
    /\ UNCHANGED <<cache, cacheEvents, restVars>>

NextHybrid ==
    \/ \E s \in Sessions : Create(Host, s)
    \/ \E s \in Sessions : AppendEvent(Host, s)
    \/ \E s \in Sessions : Delete(Host, s)
    \/ FanOut(Host)
    \/ Common

InitHybrid == Init /\ bufSize > 0
SpecHybrid == InitHybrid /\ [][NextHybrid]_vars

\* Fair scheduling of the goroutines the persister owns or that Close runs
\* in: the worker keeps taking steps while it can (each op it runs ends, by
\* its own statements or by the 30 s deadline of processAsyncOp), and the
\* caller of Close keeps running.
WorkerStep == asyncWorker \/ Exec(Worker) \/ TxFail(Worker)
CloserStep == Close_flag \/ Close_chan \/ Close_wait
InitAsync == Init /\ bufSize > 0
SpecFair ==
    InitAsync /\ [][Next]_vars /\ WF_vars(WorkerStep) /\ WF_vars(CloserStep)

\* ------------------------------------- Redis session service, by command
rKeys == <<rRec, rRecExp, rList, rListExp, rIndex, rIdxExp>>
rHist == <<rCreated, rDeleted, rOkEvents, rPushed, rWiped>>
CreateStates == {[EmptyState EXCEPT !["k1"] = v] : v \in GoVals \cup {Absent}}

\* The locals of a call that starts now.
NewCall(kind) ==
    [NoCall EXCEPT !.kind = kind, !.n = rCalls + 1, !.t0 = rNow,
                   !.list0 = rList, !.w0 = rWiped]

\* A client starts a call.
RStart(c, call) ==
    /\ rpc[c] = "idle"
    /\ rCalls < MaxCalls
    /\ rCalls' = rCalls + 1
    /\ rCall' = [rCall EXCEPT ![c] = call]

\* The call `call` of client c returns res.
RReturnOf(c, call, res) ==
    /\ rpc' = [rpc EXCEPT ![c] = "idle"]
    /\ rRes' = [rRes EXCEPT ![c] =
                   [res EXCEPT !.kind = call.kind, !.n = call.n]]
\* The call of client c that is in progress returns res.
RReturn(c, res) == RReturnOf(c, rCall[c], res)

\* The record or the list was removed while the call of c was running.
Disturbed(c) == rWiped > rCall[c].w0

\* Create: marshal the envelope and `SET key data ttl`.
RCreate(c, st) ==
    /\ RStart(c, [NewCall("create") EXCEPT !.st = st])
    /\ rRec' = [live |-> TRUE, id |-> TheId, app |-> TheApp, user |-> TheUser,
                state |-> MarshalState(st), lut |-> rNow]
    /\ rRecExp' = rNow + SessionTTL
    /\ rpc' = [rpc EXCEPT ![c] = "cr_sadd"]
    /\ rCreated' = [valid |-> FALSE, ok |-> TRUE, st |-> st, by |-> c]
    /\ rDeleted' = FALSE
    /\ UNCHANGED <<rNow, rList, rListExp, rIndex, rIdxExp, rHandle, rRes,
                   rOkEvents, rPushed, rWiped>>
    /\ UNCHANGED <<persisterVars, cacheVars, streamVars, laterVars>>

\* Create: `SADD indexKey sessionID`; a new set has no expiry.
RCreate_sadd(c) ==
    /\ rpc[c] = "cr_sadd"
    /\ rIndex' = rIndex \cup {TheId}
    /\ rpc' = [rpc EXCEPT ![c] = "cr_expire"]
    /\ rDeleted' = FALSE
    /\ UNCHANGED <<rNow, rRec, rRecExp, rList, rListExp, rIdxExp, rCall,
                   rHandle, rRes, rCalls, rCreated, rOkEvents, rPushed, rWiped>>
    /\ UNCHANGED <<persisterVars, cacheVars, streamVars, laterVars>>

\* Create: `EXPIRE indexKey ttl`, then return the live session.
RCreate_expire(c) ==
    /\ rpc[c] = "cr_expire"
    /\ rIdxExp' = IF rIndex # {} THEN rNow + SessionTTL ELSE rIdxExp
    /\ rHandle' = [cur |-> rCall[c].n,
                   st |-> [rHandle.st EXCEPT ![rCall[c].n] = rCall[c].st]]
    /\ RReturn(c, [NoRes EXCEPT !.ret = "ok", !.id = TheId,
                                !.state = rCall[c].st])
    /\ rCreated' = IF rCreated.by = c /\ rCreated.ok
                   THEN [rCreated EXCEPT !.valid = TRUE]
                   ELSE rCreated
    /\ rDeleted' = FALSE
    /\ UNCHANGED <<rNow, rRec, rRecExp, rList, rListExp, rIndex, rCall, rCalls,
                   rOkEvents, rPushed, rWiped>>
    /\ UNCHANGED <<persisterVars, cacheVars, streamVars, laterVars>>

\* Get: `GET key`; redis.Nil is ErrSessionNotFound.
RGet(c) ==
    /\ RStart(c, [NewCall("get") EXCEPT
                      !.got = rRec,
                      !.want = [valid |-> rCreated.valid, st |-> rCreated.st]])
    /\ IF rRec.live
       THEN /\ rpc' = [rpc EXCEPT ![c] = "get_events"]
            /\ UNCHANGED rRes
       ELSE RReturnOf(c, NewCall("get"), [NoRes EXCEPT !.ret = "notfound"])
    /\ UNCHANGED <<rNow, rKeys, rHandle, rHist>>
    /\ UNCHANGED <<persisterVars, cacheVars, streamVars, laterVars>>

\* Get: `LRANGE evKey 0 -1`, unmarshal, return the session.
RGet_events(c) ==
    /\ rpc[c] = "get_events"
    /\ rHandle' = [cur |-> rCall[c].n,
                   st |-> [rHandle.st EXCEPT
                              ![rCall[c].n] = UnmarshalState(rCall[c].got.state)]]
    /\ RReturn(c, [NoRes EXCEPT !.ret = "ok", !.id = rCall[c].got.id,
                                !.state = UnmarshalState(rCall[c].got.state),
                                !.events = rList])
    /\ UNCHANGED <<rNow, rKeys, rCall, rCalls, rHist>>
    /\ UNCHANGED <<persisterVars, cacheVars, streamVars, laterVars>>

\* List: `SMEMBERS indexKey`; no member, no session.
RList(c) ==
    /\ RStart(c, NewCall("list"))
    /\ IF rIndex # {}
       THEN /\ rpc' = [rpc EXCEPT ![c] = "ls_get"]
            /\ UNCHANGED rRes
       ELSE RReturnOf(c, NewCall("list"), [NoRes EXCEPT !.ret = "ok"])
    /\ UNCHANGED <<rNow, rKeys, rHandle, rHist>>
    /\ UNCHANGED <<persisterVars, cacheVars, streamVars, laterVars>>

\* List: the pipeline of `GET key`, one per member; a member whose key is
\* missing is skipped.
RList_get(c) ==
    /\ rpc[c] = "ls_get"
    /\ RReturn(c, [NoRes EXCEPT !.ret = "ok",
                                !.ids = IF rRec.live THEN {rRec.id} ELSE {}])
    /\ UNCHANGED <<rNow, rKeys, rCall, rCalls, rHandle, rHist>>
    /\ UNCHANGED <<persisterVars, cacheVars, streamVars, laterVars>>

\* Delete, first command of the pipeline: `DEL key`.
RDelete(c) ==
    /\ RStart(c, NewCall("delete"))
    /\ rRec' = NoRec /\ rRecExp' = NoExp
    /\ rpc' = [rpc EXCEPT ![c] = "del_events"]
    /\ rCreated' = NotCreated
    /\ rWiped' = rWiped + 1
    /\ UNCHANGED <<rNow, rList, rListExp, rIndex, rIdxExp, rHandle, rRes,
                   rDeleted, rOkEvents, rPushed>>
    /\ UNCHANGED <<persisterVars, cacheVars, streamVars, laterVars>>

\* Delete, second command: `DEL evKey`.
RDelete_events(c) ==
    /\ rpc[c] = "del_events"
    /\ rList' = <<>> /\ rListExp' = NoExp
    /\ rpc' = [rpc EXCEPT ![c] = "del_srem"]
    /\ rWiped' = rWiped + 1
    /\ UNCHANGED <<rNow, rRec, rRecExp, rIndex, rIdxExp, rCall, rHandle, rRes,
                   rCalls, rCreated, rDeleted, rOkEvents, rPushed>>
    /\ UNCHANGED <<persisterVars, cacheVars, streamVars, laterVars>>

\* Delete, third command: `SREM indexKey sessionID`, then return nil.
RDelete_srem(c) ==
    /\ rpc[c] = "del_srem"
    /\ rIndex' = rIndex \ {TheId}
    /\ rIdxExp' = IF rIndex \ {TheId} = {} THEN NoExp ELSE rIdxExp
    /\ RReturn(c, [NoRes EXCEPT !.ret = "ok"])
    /\ rDeleted' = /\ rCreated.by = "none"
                   /\ \A o \in RClients : rpc[o] \notin {"cr_sadd", "cr_expire"}
    /\ UNCHANGED <<rNow, rRec, rRecExp, rList, rListExp, rCall, rCalls,
                   rHandle, rCreated, rOkEvents, rPushed, rWiped>>
    /\ UNCHANGED <<persisterVars, cacheVars, streamVars, laterVars>>

\* AppendEvent: `evt.Timestamp = time.Now()` and marshal; the caller's
\* timestamp is overwritten.
RAppendEvent(c, callerTs) ==
    /\ rHandle.cur # 0
    /\ RStart(c, [NewCall("append") EXCEPT
                      !.h = rHandle.cur,
                      !.ev = [[eid |-> rCalls + 1, ts |-> callerTs]
                                 EXCEPT !.ts = rNow]])
    /\ rpc' = [rpc EXCEPT ![c] = "ae_rpush"]
    /\ UNCHANGED <<rNow, rKeys, rHandle, rRes, rHist>>
    /\ UNCHANGED <<persisterVars, cacheVars, streamVars, laterVars>>

\* Where `RPUSH evKey data` puts the element.
Push_Front(list, e) == <<e>> \o list
Push_Replace(list, e) == <<e>>
Push(list, e) == Append(list, e)

\* AppendEvent: `RPUSH evKey data`; a new list has no expiry.
RAppendEvent_rpush(c) ==
    /\ rpc[c] = "ae_rpush"
    /\ rList' = Push(rList, rCall[c].ev)
    /\ rPushed' = Append(rPushed, rCall[c].ev.eid)
    /\ rpc' = [rpc EXCEPT ![c] = "ae_expire"]
    /\ UNCHANGED <<rNow, rRec, rRecExp, rListExp, rIndex, rIdxExp, rCall,
                   rHandle, rRes, rCalls, rCreated, rDeleted, rOkEvents, rWiped>>
    /\ UNCHANGED <<persisterVars, cacheVars, streamVars, laterVars>>

\* AppendEvent: `EXPIRE evKey ttl`.
RAppendEvent_expire(c) ==
    /\ rpc[c] = "ae_expire"
    /\ rListExp' = IF rList # <<>> THEN rNow + SessionTTL ELSE rListExp
    /\ rpc' = [rpc EXCEPT ![c] = "ae_get"]
    /\ UNCHANGED <<rNow, rRec, rRecExp, rList, rIndex, rIdxExp, rCall,
                   rHandle, rRes, rCalls, rHist>>
    /\ UNCHANGED <<persisterVars, cacheVars, streamVars, laterVars>>

\* AppendEvent: `GET key`; without the envelope the call returns the error.
RAppendEvent_get(c) ==
    /\ rpc[c] = "ae_get"
    /\ IF rRec.live
       THEN /\ rCall' = [rCall EXCEPT ![c].got = rRec]
            /\ rpc' = [rpc EXCEPT ![c] = "ae_set"]
            /\ UNCHANGED rRes
       ELSE /\ RReturn(c, [NoRes EXCEPT !.ret = "err"])
            /\ UNCHANGED rCall
    /\ UNCHANGED <<rNow, rKeys, rCalls, rHandle, rHist>>
    /\ UNCHANGED <<persisterVars, cacheVars, streamVars, laterVars>>

\* `storable.State = maps.Collect(state.All())`: the state of the envelope
\* that was read is replaced by the handle's map.
Overlay_Merge(stored, local) ==
    [k \in StateKeys |-> IF local[k] # Absent THEN local[k] ELSE stored[k]]
Overlay(stored, local) == local

\* AppendEvent: overlay the handle's state on the envelope that was read,
\* refresh last_update_time, `SET key data ttl`, return nil.
RAppendEvent_set(c) ==
    /\ rpc[c] = "ae_set"
    /\ rRec' = [rCall[c].got EXCEPT
                    !.state = Overlay(rCall[c].got.state,
                                      MarshalState(rHandle.st[rCall[c].h])),
                    !.lut = rNow]
    /\ rRecExp' = rNow + SessionTTL
    /\ RReturn(c, [NoRes EXCEPT !.ret = "ok"])
    /\ rOkEvents' = rOkEvents \cup {rCall[c].ev.eid}
    /\ rCreated' = IF rRec.live /\ rRec'.state = rRec.state THEN rCreated
                   ELSE Spoiled(rCreated)
    /\ UNCHANGED <<rNow, rList, rListExp, rIndex, rIdxExp, rCall, rCalls,
                   rHandle, rDeleted, rPushed, rWiped>>
    /\ UNCHANGED <<persisterVars, cacheVars, streamVars, laterVars>>

\* redisState.Set: store in the local map, then updateStateScript in one
\* piece: no envelope is the error reply "session not found" (which is not
\* redis.Nil, so persistAtomic returns it), else the envelope gets the
\* cjson round trip of the snapshot and the new last_update_time, with the
\* TTL.
RStateSet(c, k, v) ==
    /\ rHandle.cur # 0
    /\ RStart(c, [NewCall("set") EXCEPT !.h = rHandle.cur])
    /\ rHandle' = [rHandle EXCEPT !.st[rHandle.cur][k] = v]
    /\ IF rRec.live
       THEN /\ rRec' = [rRec EXCEPT
                           !.state = CjsonState(MarshalState(
                                         rHandle'.st[rHandle.cur])),
                           !.lut = rNow]
            /\ rRecExp' = rNow + SessionTTL
            /\ RReturnOf(c, NewCall("set"), [NoRes EXCEPT !.ret = "ok"])
            /\ rCreated' = Spoiled(rCreated)
       ELSE /\ RReturnOf(c, NewCall("set"), [NoRes EXCEPT !.ret = "err"])
            /\ UNCHANGED <<rRec, rRecExp, rCreated>>
    /\ UNCHANGED <<rNow, rList, rListExp, rIndex, rIdxExp, rDeleted,
                   rOkEvents, rPushed, rWiped>>
    /\ UNCHANGED <<persisterVars, cacheVars, streamVars, laterVars>>

\* The clock advances by one tick; Redis removes the keys whose expiry has
\* come.
Expired(exp, now) == exp # NoExp /\ exp <= now
Tick ==
    /\ rNow < MaxTime
    /\ rNow' = rNow + 1
    /\ IF Expired(rRecExp, rNow') THEN rRec' = NoRec /\ rRecExp' = NoExp
       ELSE UNCHANGED <<rRec, rRecExp>>
    /\ IF Expired(rListExp, rNow') THEN rList' = <<>> /\ rListExp' = NoExp
       ELSE UNCHANGED <<rList, rListExp>>
    /\ IF Expired(rIdxExp, rNow') THEN rIndex' = {} /\ rIdxExp' = NoExp
       ELSE UNCHANGED <<rIndex, rIdxExp>>
    /\ rWiped' = IF (rRec.live /\ Expired(rRecExp, rNow'))
                     \/ (rList # <<>> /\ Expired(rListExp, rNow'))
                 THEN rWiped + 1 ELSE rWiped
    /\ rCreated' = IF Expired(rRecExp, rNow') THEN Spoiled(rCreated)
                   ELSE rCreated
    /\ UNCHANGED <<rpc, rCall, rHandle, rRes, rCalls, rDeleted, rOkEvents, rPushed>>
    /\ UNCHANGED <<persisterVars, cacheVars, streamVars, laterVars>>

NextRedis ==
    \/ \E c \in RClients, st \in CreateStates : RCreate(c, st)
    \/ \E c \in RClients : RCreate_sadd(c)
    \/ \E c \in RClients : RCreate_expire(c)
    \/ \E c \in RClients : RGet(c)
    \/ \E c \in RClients : RGet_events(c)
    \/ \E c \in RClients : RList(c)
    \/ \E c \in RClients : RList_get(c)
    \/ \E c \in RClients : RDelete(c)
    \/ \E c \in RClients : RDelete_events(c)
    \/ \E c \in RClients : RDelete_srem(c)
    \/ \E c \in RClients : RAppendEvent(c, CallerTs)
    \/ \E c \in RClients : RAppendEvent_rpush(c)
    \/ \E c \in RClients : RAppendEvent_expire(c)
    \/ \E c \in RClients : RAppendEvent_get(c)
    \/ \E c \in RClients : RAppendEvent_set(c)
    \/ \E c \in RClients, k \in StateKeys, v \in GoVals : RStateSet(c, k, v)
    \/ Tick

InitRedis == Init /\ bufSize = 0
SpecRedis == InitRedis /\ [][NextRedis]_vars

\* --------------------------- Redis session service, several handles
\* The calls made through session handles, each through any handle
\* returned so far, with redisState.Set statement by statement.
\* Number of service calls started in one run of this part.
MaxHandleCalls == 5
\* The handles Create and Get have returned.
Returned == {h \in 1..MaxCalls : rHandle.st[h] # Unissued}

\* A client starts a call through a handle.
HStart(c, call) ==
    /\ rpc[c] = "idle"
    /\ rCalls < MaxHandleCalls
    /\ rCalls' = rCalls + 1
    /\ rCall' = [rCall EXCEPT ![c] = call]

\* AppendEvent(ctx, sess, evt) with sess the handle h: timestamp, marshal.
\* st keeps the handle's map as it is at the call.
RAppendEvent_on(c, h) ==
    /\ HStart(c, [NewCall("append") EXCEPT
                      !.h = h, !.st = rHandle.st[h],
                      !.ev = [eid |-> rCalls + 1, ts |-> rNow]])
    /\ rpc' = [rpc EXCEPT ![c] = "ae_rpush"]
    /\ UNCHANGED <<rNow, rKeys, rHandle, rRes, rHist>>
    /\ UNCHANGED <<persisterVars, cacheVars, streamVars, laterVars>>

\* redisState.Set on handle h: `s.data.Store(key, value)`.
Set_store(c, h, k, v) ==
    /\ HStart(c, [NewCall("set") EXCEPT !.h = h])
    /\ rHandle' = [rHandle EXCEPT !.st[h][k] = v]
    /\ rpc' = [rpc EXCEPT ![c] = "set_tomap"]
    /\ UNCHANGED <<rNow, rKeys, rRes, rHist>>
    /\ UNCHANGED <<persisterVars, cacheVars, streamVars, laterVars>>

\* persistAtomic: `stateMap := s.toMap()` and sonic.Marshal.
Set_toMap(c) ==
    /\ rpc[c] = "set_tomap"
    /\ rCall' = [rCall EXCEPT ![c].st = rHandle.st[rCall[c].h]]
    /\ rpc' = [rpc EXCEPT ![c] = "set_script"]
    /\ UNCHANGED <<rNow, rKeys, rHandle, rRes, rCalls, rHist>>
    /\ UNCHANGED <<persisterVars, cacheVars, streamVars, laterVars>>

\* persistAtomic: updateStateScript.Run with the JSON of stateMap, in one
\* piece on the server; the error reply is returned by Set.
Set_script(c) ==
    /\ rpc[c] = "set_script"
    /\ IF rRec.live
       THEN /\ rRec' = [rRec EXCEPT
                           !.state = CjsonState(MarshalState(rCall[c].st)),
                           !.lut = rNow]
            /\ rRecExp' = rNow + SessionTTL
            /\ RReturn(c, [NoRes EXCEPT !.ret = "ok"])
            /\ rCreated' = Spoiled(rCreated)
       ELSE /\ RReturn(c, [NoRes EXCEPT !.ret = "err"])
            /\ UNCHANGED <<rRec, rRecExp, rCreated>>
    /\ UNCHANGED <<rNow, rList, rListExp, rIndex, rIdxExp, rCall, rCalls,
                   rHandle, rDeleted, rOkEvents, rPushed, rWiped>>
    /\ UNCHANGED <<persisterVars, cacheVars, streamVars, laterVars>>

NextHandles ==
    \/ \E c \in RClients : RCreate(c, EmptyState)
    \/ \E c \in RClients : RCreate_sadd(c)
    \/ \E c \in RClients : RCreate_expire(c)
    \/ \E c \in RClients : RGet(c)
    \/ \E c \in RClients : RGet_events(c)
    \/ \E c \in RClients, h \in Returned : RAppendEvent_on(c, h)
    \/ \E c \in RClients : RAppendEvent_rpush(c)
    \/ \E c \in RClients : RAppendEvent_expire(c)
    \/ \E c \in RClients : RAppendEvent_get(c)
    \/ \E c \in RClients : RAppendEvent_set(c)
    \/ \E c \in RClients, h \in Returned, k \in StateKeys :
           Set_store(c, h, k, "str")
    \/ \E c \in RClients : Set_toMap(c)
    \/ \E c \in RClients : Set_script(c)

InitHandles == Init /\ bufSize = 0
SpecHandles == InitHandles /\ [][NextHandles]_vars

\* ------------------------------- provider adapters, streaming, by step
\* GenerateContent(ctx, req, stream = true): returns the iterator; the
\* consumer starts ranging over it.
GenerateContent(p, s) ==
    /\ gPc = "idle"
    /\ gProto' = p
    /\ gStream' = s
    /\ gPc' = "params"
    /\ UNCHANGED <<gPos, gAccum, gYielded, gStopped, gCancelled, gOpen, gReply>>
    /\ UNCHANGED <<persisterVars, cacheVars, redisVars, laterVars>>

\* generateStream: build the request parameters; on failure yield
\* (nil, err) and return; else open the stream.
generateStream_params ==
    /\ gPc = "params"
    /\ IF gStream.params
       THEN /\ gPc' = "next"
            /\ gOpen' = ~gCancelled
            /\ UNCHANGED gYielded
       ELSE /\ gYielded' = Append(gYielded, ErrItem)
            /\ gPc' = "done"
            /\ UNCHANGED gOpen
    /\ UNCHANGED <<gProto, gStream, gPos, gAccum, gStopped, gCancelled, gReply>>
    /\ UNCHANGED <<persisterVars, cacheVars, redisVars, laterVars>>

\* The consumer, or a goroutine of its program, cancels ctx while the
\* iteration is in progress; the HTTP transport then closes the response.
CancelCtx ==
    /\ gPc \in {"params", "next", "end"}
    /\ ~gCancelled
    /\ gCancelled' = TRUE
    /\ gOpen' = FALSE
    /\ UNCHANGED <<gPc, gProto, gStream, gPos, gAccum, gYielded, gStopped, gReply>>
    /\ UNCHANGED <<persisterVars, cacheVars, redisVars, laterVars>>

\* generateStream: one round of `for stream.Next()`: take the chunk, feed
\* the accumulator, yield a partial response if the chunk carries text;
\* cont is what the consumer returns from yield. Once ctx is cancelled
\* stream.Next() returns false with the context's error, unless the chunk
\* (or the end of the stream) had been read before (buffered). A stream
\* read to its end or broken is released by the HTTP transport.
generateStream_next(cont, buffered) ==
    /\ gPc = "next"
    /\ IF gCancelled /\ ~buffered
       THEN /\ gStream' = [gStream EXCEPT !.err = TRUE]
            /\ gPc' = "end"
            /\ UNCHANGED <<gPos, gAccum, gYielded, gStopped>>
       ELSE /\ UNCHANGED gStream
            /\ IF gPos < Len(gStream.chunks)
               THEN LET chunk == gStream.chunks[gPos + 1]
                    IN  /\ gPos' = gPos + 1
                        /\ IF AccumulateFails(gProto, chunk)
                           THEN /\ gYielded' = Append(gYielded, ErrItem)
                                /\ gPc' = "done"
                                /\ UNCHANGED <<gAccum, gStopped>>
                           ELSE /\ gAccum' = IF chunk.text /\ chunk.fits
                                              THEN Append(gAccum, gPos + 1)
                                              ELSE gAccum
                                /\ IF chunk.text
                                   THEN /\ gYielded' = Append(gYielded,
                                               PartialResponse(gPos + 1))
                                        /\ gStopped' = ~cont
                                        /\ gPc' = IF cont THEN "next"
                                                          ELSE "done"
                                   ELSE UNCHANGED <<gYielded, gStopped, gPc>>
               ELSE /\ gPc' = "end"
                    /\ UNCHANGED <<gPos, gAccum, gYielded, gStopped>>
    /\ gOpen' = (gOpen /\ gPc' # "end")
    /\ UNCHANGED <<gProto, gCancelled, gReply>>
    /\ UNCHANGED <<persisterVars, cacheVars, redisVars, laterVars>>

\* generateStream after the loop: stream.Err() yields (nil, err); else the
\* final aggregated response is yielded; then the iterator returns.
generateStream_end ==
    /\ gPc = "end"
    /\ gYielded' = IF StreamErr(gStream) THEN Append(gYielded, ErrItem)
                   ELSE Append(gYielded, FinalResponse(gAccum))
    /\ gPc' = "done"
    /\ UNCHANGED <<gProto, gStream, gPos, gAccum, gStopped, gCancelled, gOpen,
                   gReply>>
    /\ UNCHANGED <<persisterVars, cacheVars, redisVars, laterVars>>

\* GenerateContent(ctx, req, stream = false), ranged over by the consumer:
\* generate builds the parameters, sends the request, converts the reply
\* and yields one item.
generate(p, params, reply) ==
    /\ gPc = "idle"
    /\ gProto' = p
    /\ gStream' = [NoStream EXCEPT !.params = params]
    /\ gReply' = IF params THEN reply ELSE NoReply
    /\ gYielded' = IF ~params \/ reply.err THEN <<ErrItem>>
                   ELSE <<convertResponse(p, reply.n)>>
    /\ gPc' = "done"
    /\ UNCHANGED <<gPos, gAccum, gStopped, gCancelled, gOpen>>
    /\ UNCHANGED <<persisterVars, cacheVars, redisVars, laterVars>>

StreamInputs ==
    [params : BOOLEAN, chunks : SeqsUpTo(Chunks, MaxChunks), err : BOOLEAN]

NextStream ==
    \/ \E p \in Protocols, s \in StreamInputs : GenerateContent(p, s)
    \/ generateStream_params
    \/ CancelCtx
    \/ \E cont, buffered \in BOOLEAN : generateStream_next(cont, buffered)
    \/ generateStream_end
    \/ \E p \in Protocols, params \in BOOLEAN, reply \in Replies :
           generate(p, params, reply)

InitStream == Init /\ bufSize = 0
SpecStream == InitStream /\ [][NextStream]_vars

\* ------------------------------------------------------- claim vocabulary
Stored(i) == \E r \in events : r.id = i
RowOf(i) == CHOOSE r \in events : r.id = i
IsPrefix(a, b) == Len(a) <= Len(b) /\ \A k \in 1..Len(a) : a[k] = b[k]
InChan(i) == \E k \in 1..Len(asyncChan) : asyncChan[k] = i
InEnqLog(i) == \E k \in 1..Len(enqLog) : enqLog[k] = i
PosInEnqLog(i) == CHOOSE k \in 1..Len(enqLog) : enqLog[k] = i
\* A DeleteSession for s got past the closed guard.
DeleteIssued(s) ==
    \E i \in OpIds : ops[i].typ = "delete" /\ ops[i].sid = s /\ ops[i].path # "closed"
OkEvents(s) ==
    {i \in OpIds : ops[i].typ = "event" /\ ops[i].sid = s /\ ops[i].exec = "ok"}
\* The call of op i returns in this step.
Returns(i) == i \in OpIds /\ ops[i].ret = "none" /\ ops'[i].ret # "none"

\* ---------------------------------------------------------------- C1
\* C1 (gap-free part): for every session no DeleteSession was issued for,
\* the event_order values of its rows are exactly 0..n-1, n the number of
\* PersistEvent ops of that session executed successfully, one row each.
C1_GapFree ==
    \A s \in Sessions :
        ~DeleteIssued(s) =>
            /\ OrdersOf(events, s) = 0..(Cardinality(OkEvents(s)) - 1)
            /\ {r.id : r \in RowsOf(events, s)} = OkEvents(s)
            /\ Cardinality(RowsOf(events, s)) = Cardinality(OkEvents(s))
\* C1 (monotone part): for every session no DeleteSession was issued for, a
\* newly committed event row has an order strictly greater than every row
\* the session already had.
C1_Monotone ==
    \A r \in events' \ events :
        ~DeleteIssued(r.sid) =>
            \A q \in RowsOf(events, r.sid) : q.ord < r.ord
\* C1 (sync part): in sync mode a PersistEvent that returns nil has its row
\* in the store at the moment it returns.
C1_SyncPresent ==
    \A i \in OpIds :
        (bufSize = 0 /\ ops[i].typ = "event" /\ Returns(i) /\ ops'[i].ret = "nil")
            => \E r \in events' : r.id = i /\ r.sid = ops[i].sid
\* C1: over the successfully executed PersistEvent ops of a session (no
\* DeleteSession issued for it), event_order is gap-free from 0 and strictly
\* increasing, and in sync mode the row is present when PersistEvent returns.
C1_Thm == []C1_GapFree /\ [][C1_Monotone /\ C1_SyncPresent]_vars
\* Two events of s1 stored in sync mode by two different producers.
C1_Witness ==
    /\ bufSize = 0
    /\ Cardinality(RowsOf(events, "s1")) = 2
    /\ \E i, j \in OkEvents("s1") : ops[i].by # ops[j].by
    /\ ~DeleteIssued("s1")

\* ---------------------------------------------------------------- C2
\* C2: in async mode, if a producer's PersistEvent for e1 returned before
\* its PersistEvent for e2 of the same session was issued, then once both
\* are stored e1's event_order is smaller than e2's.
C2_AppendOrder ==
    \A i, j \in OpIds :
        ( /\ bufSize > 0
          /\ i < j
          /\ ops[i].by = ops[j].by
          /\ ops[i].typ = "event" /\ ops[j].typ = "event"
          /\ ops[i].sid = ops[j].sid
          /\ Stored(i) /\ Stored(j) )
        => RowOf(i).ord < RowOf(j).ord

\* ---------------------------------------------------------------- C3
\* C3 (ops part): once a Close call has returned the persister is closed,
\* and every op issued afterwards returns the closed error, is never
\* enqueued and is never executed.
C3_LateOps ==
    /\ closeRet > 0 => closed
    /\ \A i \in OpIds :
          ops[i].late =>
              /\ ops[i].path = "closed" /\ ops[i].ret = "closed"
              /\ ops[i].exec = "none" /\ ~InEnqLog(i) /\ ~Stored(i)
\* C3 (Close part): closed is never reset, and a Close call that starts
\* after a Close call has returned returns at once and changes nothing.
C3_LateClose ==
    /\ closed => closed'
    /\ (closeRet > 0 /\ closeRet' # closeRet) =>
           /\ closeRet' = closeRet + 1
           /\ UNCHANGED <<bufSize, closed, chanClosed, asyncChan, pc, cur,
                          nextOrder, pendDel, rowLock, sessions, events, ops,
                          enqLog, execLog, cpc>>
\* C3: after Close has returned, every later op returns the closed error
\* without enqueuing or writing, and every later Close returns nil with no
\* effect.
C3_Thm == []C3_LateOps /\ [][C3_LateClose]_vars
\* An op issued after Close returned, and a second Close that returned.
C3_Witness ==
    /\ closeRet = 2
    /\ \E i \in OpIds : ops[i].late
    /\ \E i \in OpIds : ~ops[i].late /\ ops[i].exec = "ok"

\* ---------------------------------------------------------------- C4
\* C4: under every interleaving of producers with Close, no producer sends
\* on the queue after it was closed: every op is enqueued, or runs
\* synchronously, or returns the closed error.
C4_NoSendOnClosed ==
    /\ \A p \in Producers : pc[p] # "panicked"
    /\ \A i \in OpIds : ops[i].path \in {"none", "queued", "sync", "closed"}

\* ---------------------------------------------------------------- C5
\* C5 (safety part): the worker executes the queued ops in send order, and
\* in async mode once Close has returned the queue is empty, every op ever
\* sent has been executed by the worker and the worker has exited.
C5_Drained ==
    /\ IsPrefix(execLog, enqLog)
    /\ \A i \in OpIds : ops[i].execBy = Worker => InEnqLog(i)
    /\ (bufSize > 0 /\ closeRet > 0) =>
           /\ pc[Worker] = "exited"
           /\ asyncChan = <<>>
           /\ execLog = enqLog
           /\ \A i \in OpIds : InEnqLog(i) =>
                 ops[i].exec # "none" /\ ops[i].execBy = Worker
\* C5 (liveness part): a Close call that has started returns.
C5_Returns == (cpc # "idle") ~> (cpc = "idle" /\ closeRet > 0)
C6_SelectOutcome ==
    \A p \in Producers :
        (pc[p] = "select" /\ pc'[p] # "select") =>
            LET id == cur[p] IN
            IF bufSize = 0
            THEN ops'[id].path = "sync" /\ pc[Worker] = "absent"
            ELSE IF Len(asyncChan) < bufSize
            THEN asyncChan' = Append(asyncChan, id) /\ ops'[id].ret = "nil"
            ELSE asyncChan' = asyncChan /\ ops'[id].path = "sync"
\* C6: a persister op never blocks on the queue: in async mode it is
\* enqueued and returns nil when the queue has room, and runs synchronously
\* in the caller when the queue is full; in sync mode it runs synchronously
\* and no worker exists.
C6_NonBlocking == [][C6_SelectOutcome]_vars

\* ---------------------------------------------------------------- C7
\* The scenario of C7: capacity 1, e1 then e2 consecutive PersistEvent calls
\* of one producer, e1 sent on the queue while the worker was already busy
\* with an earlier op k that it is still running, the queue not closed.
C7_Blocked(i, j) ==
    /\ bufSize = 1 /\ ~chanClosed
    /\ j = i + 1
    /\ ops[i].by = ops[j].by
    /\ ops[i].typ = "event" /\ ops[j].typ = "event"
    /\ ops[i].sid = ops[j].sid
    /\ ops[i].path = "queued"
    /\ pc[Worker] \in TxPcs
    /\ cur[Worker] # i
    /\ PosInEnqLog(cur[Worker]) < PosInEnqLog(i)
\* When both calls have returned the store holds both events.
C7_BothStored ==
    \A i, j \in OpIds :
        (C7_Blocked(i, j) /\ Returns(j) /\ ops'[j].ret = "nil")
            => (\E r \in events' : r.id = i) /\ (\E r \in events' : r.id = j)
\* C7 as stated: in the scenario, at the moment both calls have returned
\* the store contains both events.
C7_Orig == [][C7_BothStored]_vars
\* The second call finds the queue full and runs synchronously; when it
\* returns nil the store holds the second event, while the first is still
\* in the queue and not in the store.
C7_SecondOnly ==
    \A i, j \in OpIds :
        /\ (C7_Blocked(i, j) /\ pc[ops[j].by] = "select" /\ pc'[ops[j].by] # "select")
              => ops'[j].path = "sync" /\ asyncChan' = asyncChan
        /\ (C7_Blocked(i, j) /\ Returns(j) /\ ops'[j].ret = "nil")
              => /\ ops[j].path = "sync"
                 /\ \E r \in events' : r.id = j
                 /\ ~(\E r \in events' : r.id = i)
                 /\ asyncChan' = <<i>>
\* C7: in the scenario the first call is enqueued, the second finds the
\* queue full and runs synchronously, and at the moment both calls have
\* returned the store contains the second event only; the first is still
\* queued behind the op the worker is running.
C7_Thm == [][C7_SecondOnly]_vars
\* Both calls have returned, the second one synchronously, the worker is
\* still busy with the earlier op.
C7_Witness ==
    \E i, j \in OpIds :
        C7_Blocked(i, j) /\ ops[j].path = "sync" /\ ops[j].ret = "nil" /\ Stored(j)

\* ---------------------------------------------------------------- C8
\* C8: the failure of a queued op is reported to no producer (its call
\* returned nil, no call returns its error) and does not stop the worker:
\* the worker exits only after the queue was closed and is empty, with
\* every op ever sent executed.
C8_Thm ==
    /\ \A i \in OpIds :
          ops[i].path = "queued" =>
              /\ ops[i].ret = "nil"
              /\ \A j \in OpIds : ops[j].errOf # i
    /\ \A i \in OpIds : ops[i].errOf \in {0, i}
    /\ pc[Worker] = "exited" =>
          /\ chanClosed
          /\ asyncChan = <<>>
          /\ \A i \in OpIds : InEnqLog(i) => ops[i].exec # "none"
\* A queued op failed in the worker and the worker then ran another op.
C8_Witness ==
    \E i, j \in OpIds :
        /\ ops[i].execBy = Worker /\ ops[i].exec = "err"
        /\ ops[j].execBy = Worker /\ ops[j].exec = "ok"
        /\ PosInEnqLog(i) < PosInEnqLog(j)

\* ---------------------------------------------------------------- C9
\* Nothing is in flight: no call is running, the queue is empty and the
\* worker idle, and every persister op was issued, accepted and executed
\* without error.
C9_Settled ==
    /\ \A p \in Producers : pc[p] = "idle" /\ svc[p] = NoSvc
    /\ pc[Worker] = "recv" /\ asyncChan = <<>>
    /\ \A i \in OpIds : ops[i].exec = "ok"
\* C9: with a persister configured, once everything the service handed to
\* the persister has been executed (no crash, no store error), the store
\* holds the session row and every successfully appended event of each
\* cached session.
C9_StoreReflectsCache ==
    C9_Settled =>
        \A s \in cache :
            /\ s \in sessions
            /\ \A k \in 1..Len(cacheEvents[s]) :
                  cacheEvents[s][k] # 0 =>
                      \E r \in events : r.sid = s /\ r.id = cacheEvents[s][k]

\* ---------------------------------------------------------------- C10
\* C10: when one producer has issued ops for a session with DeleteSession
\* the last of them, and every op has completed without error, the store
\* holds no session row and no event row of that session.
C10_DeletedForGood ==
    \A s \in Sessions :
        ( /\ ops # <<>>
          /\ \A i \in OpIds : ops[i].by = ops[1].by /\ ops[i].sid = s
          /\ \A i \in OpIds : ops[i].exec = "ok"
          /\ ops[Len(ops)].typ = "delete" )
        => s \notin sessions /\ RowsOf(events, s) = {}


\* ------------------------------------------ claim vocabulary, Redis part
EidsOf(list) == [i \in 1..Len(list) |-> list[i].eid]
CountIn(list, eid) == Cardinality({i \in 1..Len(list) : list[i].eid = eid})
PosIn(list, eid) == CHOOSE i \in 1..Len(list) : list[i].eid = eid
\* Client c executes the RPUSH of its AppendEvent in this step.
DoesRpush(c) == rpc[c] = "ae_rpush" /\ rpc'[c] = "ae_expire"
\* The AppendEvent of client c returns nil in this step.
AppendReturnsOk(c) == rpc[c] = "ae_set" /\ rpc'[c] = "idle"

\* ---------------------------------------------------------------- C11
\* C11 (at the RPUSH): the list grows by exactly one element, the event of
\* the call, at the tail; the elements it had stay as they were.
C11_AtPush ==
    \A c \in RClients :
        DoesRpush(c) =>
            /\ Len(rList') = Len(rList) + 1
            /\ rList'[Len(rList')] = rCall[c].ev
            /\ \A i \in 1..Len(rList) : rList'[i] = rList[i]
\* C11 (at the return): when AppendEvent returns nil, and no key of the
\* session was removed during the call, the list holds the event once,
\* behind everything the list held when the call started, which is unchanged.
C11_AtReturn ==
    \A c \in RClients :
        (AppendReturnsOk(c) /\ ~Disturbed(c)) =>
            /\ CountIn(rList', rCall[c].ev.eid) = 1
            /\ IsPrefix(rCall[c].list0, rList')
            /\ PosIn(rList', rCall[c].ev.eid) > Len(rCall[c].list0)
\* C11: every successful AppendEvent lengthens the events list by exactly
\* one, with its event as the last element and all earlier elements
\* unchanged in content and order.
C11_Thm == [][C11_AtPush /\ C11_AtReturn]_vars
\* An AppendEvent returned nil after appending behind an earlier event.
C11_Witness ==
    \E c \in RClients :
        /\ rRes[c].kind = "append" /\ rRes[c].ret = "ok"
        /\ rWiped = 0
        /\ Len(rList) = 2
        /\ rList[2].eid = rRes[c].n

\* ---------------------------------------------------------------- C12
\* C12: as long as nothing but AppendEvent touches the list (no Delete, no
\* expiry), under every interleaving of the calls the list holds each
\* pushed event once, in the order of the RPUSH commands, and so every
\* event whose AppendEvent returned nil exactly once.
C12_Thm ==
    rWiped = 0 =>
        /\ EidsOf(rList) = rPushed
        /\ \A i, j \in 1..Len(rList) : i # j => rList[i].eid # rList[j].eid
        /\ \A e \in rOkEvents : CountIn(rList, e) = 1
\* Two overlapping AppendEvent calls of two clients both returned nil, the
\* one that started later pushed first.
C12_Witness ==
    /\ rWiped = 0
    /\ Cardinality(rOkEvents) = 2
    /\ Len(rList) = 2
    /\ rList[1].eid > rList[2].eid


\* ---------------------------------------------------------------- C13
\* C13: in every state the timestamps of the events of the list are
\* non-decreasing in list order, also under concurrent AppendEvent calls,
\* and each is the time AppendEvent assigned, not the caller's value.
C13_TimestampsOrdered ==
    /\ \A i, j \in 1..Len(rList) : i < j => rList[i].ts <= rList[j].ts
    /\ \A i \in 1..Len(rList) : rList[i].ts <= rNow /\ rList[i].ts # CallerTs


\* ---------------------------------------------------------------- C14
\* Two state maps hold the same values (as JSON values: the Go type of a
\* number is not compared).
SameState(a, b) == MarshalState(a) = MarshalState(b)
\* Client c starts a Get in this step.
StartsGet(c) == rpc[c] = "idle" /\ rCall'[c].kind = "get" /\ rCall'[c].n = rCalls + 1
\* A Get that started when the key still held what a successful Create
\* wrote (no Delete, no expiry, no state write since) finds the session and
\* returns its id, app, user and state, and no event if none was ever
\* appended.
C14_GetStep ==
    \A c \in RClients :
        /\ (StartsGet(c) /\ rCreated.valid) => rpc'[c] = "get_events"
        /\ (rpc[c] = "get_events" /\ rpc'[c] = "idle" /\ rCall[c].want.valid) =>
              /\ rRes'[c].ret = "ok"
              /\ rRes'[c].id = TheId
              /\ rCall[c].got.app = TheApp /\ rCall[c].got.user = TheUser
              /\ SameState(rRes'[c].state, rCall[c].want.st)
              /\ (rPushed = <<>> => rRes'[c].events = <<>>)
\* C14: after a successful Create, as long as no Delete was applied and the
\* TTL has not elapsed, Get succeeds and returns the same id, app, user and
\* state, and an empty events view if no event was appended.
C14_CreateThenGet == [][C14_GetStep]_vars


\* ---------------------------------------------------------------- C15
\* C15: once a Delete has returned, and until a Create runs again, the
\* session record, the events list and the index entry do not exist (so
\* Get returns the not-found error and List does not show the session).
C15_GoneAfterDelete ==
    rDeleted =>
        /\ ~rRec.live
        /\ rList = <<>>
        /\ TheId \notin rIndex


\* ---------------------------------------------------------------- C16
\* A Create, an AppendEvent or a state.set of client c returns nil in this
\* step.
MutationReturnsOk(c) ==
    /\ rRes'[c] # rRes[c]
    /\ rRes'[c].kind \in {"create", "append", "set"}
    /\ rRes'[c].ret = "ok"
\* The expiry exp was set to the TTL at or after time t.
ResetSince(exp, t) == exp # NoExp /\ exp >= t + SessionTTL
\* No Create is between its commands.
NoCreateInFlight == \A o \in RClients : rpc'[o] \notin {"cr_sadd", "cr_expire"}
\* C16: when a Create, an AppendEvent or a state.set returns nil, no key of
\* the session was removed during the call and no Create is still running,
\* each of the session record, the events list and the index key that
\* exists has an expiry that was reset to the TTL during the call.
C16_TtlReset ==
    [][\A c \in RClients :
          (MutationReturnsOk(c) /\ rWiped' = rCall'[c].w0 /\ NoCreateInFlight) =>
              /\ rRec'.live => ResetSince(rRecExp', rCall'[c].t0)
              /\ rList' # <<>> => ResetSince(rListExp', rCall'[c].t0)
              /\ rIndex' # {} => ResetSince(rIdxExp', rCall'[c].t0)]_vars


\* ---------------------------------------------------------------- C17
\* Client c runs state.set in this step and the script finds the envelope.
StateSetWrites(c) ==
    /\ rpc[c] = "idle" /\ rCall'[c].kind = "set" /\ rCall'[c].n = rCalls + 1
    /\ rRec.live
\* C17: under every interleaving, a state.set leaves in the envelope the
\* complete snapshot its writer sent (the marshalled state map of the
\* writer's handle) and a refreshed last_update_time, and does not change
\* id, app_name and user_id.
C17_ScriptWrite ==
    [][\A c \in RClients :
          StateSetWrites(c) =>
              /\ rRec'.live
              /\ rRec'.state = MarshalState(rHandle'.st[rCall'[c].h])
              /\ rRec'.lut = rNow
              /\ rRec'.id = rRec.id /\ rRec'.app = rRec.app
              /\ rRec'.user = rRec.user]_vars


\* ---------------------------------------------------------------- C18
\* Client c runs state.set in this step and the script finds no envelope.
StateSetOnAbsent(c) ==
    /\ rpc[c] = "idle" /\ rCall'[c].kind = "set" /\ rCall'[c].n = rCalls + 1
    /\ ~rRec.live
\* C18: a state.set on a session whose envelope is not in the cache returns
\* no error, stores the value in the local state map of the handle, and
\* creates no key.
C18_SetOnAbsent ==
    [][\A c \in RClients :
          StateSetOnAbsent(c) =>
              /\ rRes'[c].ret = "ok"
              /\ \E k \in StateKeys, v \in GoVals :
                     rHandle' = [rHandle EXCEPT !.st[rCall'[c].h][k] = v]
              /\ rKeys' = rKeys]_vars


\* ------------------------------------- adapters, helper functions, calls
\* A call of a function without state: fn applied to arg gave res.
Called(fn, arg, res) ==
    /\ fCall = NoFCall
    /\ fCall' = [fn |-> fn, arg |-> arg, res |-> res]
    /\ UNCHANGED <<toolCall, tpc, tProduced>>
    /\ UNCHANGED <<baseVars, memoryVars>>

\* buildMessageParams: the converted messages go through
\* repairMessageHistory.
CallRepair(messages) ==
    Called("repairMessageHistory", messages, repairMessageHistory(messages))

\* normalizeToolCallID(id), up to the lock: an id within the limit is
\* returned as it is; for a longer one the short id is computed.
normalize_call(g, id) ==
    /\ tpc[g].at = "idle"
    /\ IF id.len <= maxToolCallIDLength
       THEN /\ tProduced' = tProduced \cup {<<id, id>>}
            /\ tpc' = tpc
       ELSE /\ tpc' = [tpc EXCEPT ![g] = [at |-> "store", id |-> id]]
            /\ tProduced' = tProduced
    /\ UNCHANGED <<fCall, toolCall>>
    /\ UNCHANGED <<baseVars, memoryVars>>

\* The step of normalize_store with the map left as it was.
normalize_store_Skip(g) ==
    /\ tpc[g].at = "store"
    /\ toolCall' = toolCall
    /\ tpc' = [tpc EXCEPT ![g].at = "ret"]
    /\ UNCHANGED <<fCall, tProduced>>
    /\ UNCHANGED <<baseVars, memoryVars>>

\* Lock; m.toolCall[shortID] = id; Unlock.
normalize_store(g) ==
    /\ tpc[g].at = "store"
    /\ toolCall' =
           [sid \in DOMAIN toolCall \cup {shortID(tpc[g].id)} |->
               IF sid = shortID(tpc[g].id) THEN tpc[g].id ELSE toolCall[sid]]
    /\ tpc' = [tpc EXCEPT ![g].at = "ret"]
    /\ UNCHANGED <<fCall, tProduced>>
    /\ UNCHANGED <<baseVars, memoryVars>>

\* return shortID.
normalize_return(g) ==
    /\ tpc[g].at = "ret"
    /\ tProduced' = tProduced \cup {<<tpc[g].id, shortID(tpc[g].id)>>}
    /\ tpc' = [tpc EXCEPT ![g] = TIdle]
    /\ UNCHANGED <<fCall, toolCall>>
    /\ UNCHANGED <<baseVars, memoryVars>>

NextToolId ==
    \/ \E g \in TGo, id \in ToolCallIds : normalize_call(g, id)
    \/ \E g \in TGo : normalize_store(g)
    \/ \E g \in TGo : normalize_return(g)

InitToolId == Init /\ bufSize = 0
SpecToolId == InitToolId /\ [][NextToolId]_vars

\* convertContentToMessage on a function call with id callID and on a
\* function response with id respID: the ids of the tool_use block and of
\* the tool_result block.
CallSanitize(callID, respID) ==
    Called("sanitizeToolID", <<callID, respID>>,
           <<sanitizeToolID(callID), sanitizeToolID(respID)>>)

\* convertTools on a function declaration whose ParametersJsonSchema is
\* the map params.
CallConvertTools(params) ==
    Called("convertToFunctionParams", params, convertToFunctionParams(params))

\* The request conversion with cfg.ResponseSchema = schema, not nil.
CallResponseSchema(schema) ==
    Called("convertSchema", schema, convertSchema(schema))

\* ----------------------------------------------- embedding client, steps
\* NewOpenAICompatibleEmbedding(cfg): emb.dim.Store(cfg.Dimension).
NewOpenAICompatibleEmbedding(dimension) ==
    /\ ~eMade
    /\ eMade' = TRUE
    /\ ePreset' = dimension
    /\ dim' = dimension
    /\ UNCHANGED <<epc, dimLog, eReturned>>
    /\ UNCHANGED <<baseVars, adapterVars, searchVars, ingestVars>>

\* Embed up to the test of the vector's length. failed: one of the error
\* returns (marshal, transport, status, read, decode, empty data). A reply
\* with an empty vector is returned without a look at dim.
Embed_call(g, failed, len) ==
    /\ eMade
    /\ epc[g].at = "idle"
    /\ IF failed
       THEN UNCHANGED <<epc, eReturned>>
       ELSE IF len > 0
            THEN /\ epc' = [epc EXCEPT ![g] = [at |-> "load", len |-> len]]
                 /\ eReturned' = eReturned
            ELSE /\ eReturned' = eReturned \cup {len}
                 /\ epc' = epc
    /\ UNCHANGED <<dim, eMade, ePreset, dimLog>>
    /\ UNCHANGED <<baseVars, adapterVars, searchVars, ingestVars>>

\* e.dim.Load() == 0; when it is not, return embedding, nil.
Embed_load(g) ==
    /\ epc[g].at = "load"
    /\ IF dim = 0
       THEN /\ epc' = [epc EXCEPT ![g].at = "cas"]
            /\ eReturned' = eReturned
       ELSE /\ epc' = [epc EXCEPT ![g] = EIdle]
            /\ eReturned' = eReturned \cup {epc[g].len}
    /\ UNCHANGED <<dim, eMade, ePreset, dimLog>>
    /\ UNCHANGED <<baseVars, adapterVars, searchVars, ingestVars>>

\* A plain store in the place of the compare-and-swap.
Embed_cas_Store(g) ==
    /\ epc[g].at = "cas"
    /\ dim' = epc[g].len
    /\ dimLog' = IF dim' # dim THEN Append(dimLog, dim') ELSE dimLog
    /\ epc' = [epc EXCEPT ![g] = EIdle]
    /\ eReturned' = eReturned \cup {epc[g].len}
    /\ UNCHANGED <<eMade, ePreset>>
    /\ UNCHANGED <<baseVars, adapterVars, searchVars, ingestVars>>

\* e.dim.CompareAndSwap(0, len(embedding)); return embedding, nil.
Embed_cas(g) ==
    /\ epc[g].at = "cas"
    /\ dim' = IF dim = 0 THEN epc[g].len ELSE dim
    /\ dimLog' = IF dim' # dim THEN Append(dimLog, dim') ELSE dimLog
    /\ epc' = [epc EXCEPT ![g] = EIdle]
    /\ eReturned' = eReturned \cup {epc[g].len}
    /\ UNCHANGED <<eMade, ePreset>>
    /\ UNCHANGED <<baseVars, adapterVars, searchVars, ingestVars>>

NextEmbed ==
    \/ \E dimension \in Presets : NewOpenAICompatibleEmbedding(dimension)
    \/ \E g \in EGo, failed \in BOOLEAN, len \in VecLens :
           Embed_call(g, failed, len)
    \/ \E g \in EGo : Embed_load(g)
    \/ \E g \in EGo : Embed_cas(g)

InitEmbed == Init /\ bufSize = 0
SpecEmbed == InitEmbed /\ [][NextEmbed]_vars

\* ------------------------------------------------- memory service, steps
\* NewPostgresMemoryService(ctx, cfg); model: cfg.EmbeddingModel != nil.
NewPostgresMemoryService(model) ==
    /\ ~mSvc.made
    /\ mSvc' = [made |-> TRUE, model |-> model]
    /\ UNCHANGED <<mRows, mAdds, mSearch>>
    /\ UNCHANGED <<baseVars, adapterVars, embedVars, ingestVars>>

\* AddSession(ctx, sess): one row per event with text, upserted in one
\* transaction. embedded: Embed gave a non-empty vector for the events.
AddSession(app, user, n, match, embedded) ==
    /\ mSvc.made
    /\ mAdds < MaxSessions
    /\ mAdds' = mAdds + 1
    /\ mRows' = mRows \cup
           SessionRows(app, user, mAdds + 1, n, match,
                       mSvc.model /\ embedded)
    /\ UNCHANGED <<mSvc, mSearch>>
    /\ UNCHANGED <<baseVars, adapterVars, embedVars, ingestVars>>

\* A stage that ran: its name and the rows it returned.
Stage(name, rows) == [stage |-> name, n |-> Cardinality(rows)]
\* How a Search ends: with the response, or with the error of a query.
SearchDone(s, failed) ==
    [s EXCEPT !.at = "done", !.err = failed,
              !.rows = IF failed THEN {} ELSE s.rows]

\* Search, first if: with an embedding model and a query, Embed the
\* query; with a non-empty vector, searchByVector. embedded: the outcome
\* of Embed; failed: the query returned an error.
Search_vector(req, embedded, failed) ==
    /\ mSvc.made
    /\ mSearch.at \in {"idle", "done"}
    /\ LET s == [NoSearch EXCEPT !.req = req]
       IN  IF mSvc.model /\ req.query # "" /\ embedded
           THEN IF failed
                THEN mSearch' = SearchDone(s, TRUE)
                ELSE mSearch' =
                         [s EXCEPT !.at = "text",
                                   !.rows = searchByVector(req),
                                   !.ran = <<Stage("vector",
                                                   searchByVector(req))>>]
           ELSE mSearch' = [s EXCEPT !.at = "text"]
    /\ UNCHANGED <<mSvc, mRows, mAdds>>
    /\ UNCHANGED <<baseVars, adapterVars, embedVars, ingestVars>>

\* Search, second if: len(memories) == 0 && req.Query != "".
Search_text(failed) ==
    /\ mSearch.at = "text"
    /\ IF mSearch.rows = {} /\ mSearch.req.query # ""
       THEN IF failed
            THEN mSearch' = SearchDone(mSearch, TRUE)
            ELSE mSearch' =
                     [mSearch EXCEPT
                         !.at = "recent",
                         !.rows = searchByText(mSearch.req),
                         !.ran = Append(@, Stage("text",
                                         searchByText(mSearch.req)))]
       ELSE mSearch' = [mSearch EXCEPT !.at = "recent"]
    /\ UNCHANGED <<mSvc, mRows, mAdds>>
    /\ UNCHANGED <<baseVars, adapterVars, embedVars, ingestVars>>

\* Search, third if: len(memories) == 0; then the response.
Search_recent(failed) ==
    /\ mSearch.at = "recent"
    /\ IF mSearch.rows = {}
       THEN IF failed
            THEN mSearch' = SearchDone(mSearch, TRUE)
            ELSE mSearch' =
                     SearchDone(
                         [mSearch EXCEPT
                             !.rows = searchRecent(mSearch.req),
                             !.ran = Append(@, Stage("recent",
                                             searchRecent(mSearch.req)))],
                         FALSE)
       ELSE mSearch' = SearchDone(mSearch, FALSE)
    /\ UNCHANGED <<mSvc, mRows, mAdds>>
    /\ UNCHANGED <<baseVars, adapterVars, embedVars, ingestVars>>

NextMemory ==
    \/ \E model \in BOOLEAN : NewPostgresMemoryService(model)
    \/ \E tenant \in Tenants, k \in SessionKinds :
           AddSession(tenant[1], tenant[2], k.n, k.match, k.embedded)
    \/ \E req \in Requests, embedded, failed \in BOOLEAN :
           Search_vector(req, embedded, failed)
    \/ \E failed \in BOOLEAN : Search_text(failed)
    \/ \E failed \in BOOLEAN : Search_recent(failed)

InitMemory == Init /\ bufSize = 0
SpecMemory == InitMemory /\ [][NextMemory]_vars

\* ------------------------------------- AddSession, event by event, steps
\* AddSession(ctx, sess) up to the loop: BeginTx, PrepareContext.
Ingest_begin(sess) ==
    /\ mSvc.made
    /\ iTx.at = "idle"
    /\ Len(iLog) < MaxIngests
    /\ iTx' = [NoTx EXCEPT !.at = "loop", !.sess = sess, !.i = 1]
    /\ UNCHANGED <<iNow, iLog>>
    /\ UNCHANGED <<searchVars, baseVars, adapterVars, embedVars>>

\* One round of the loop over the events, for event iTx.i. An event without
\* text is skipped; a failed sonic.Marshal skips the event before the clock
\* is read; a statement in a transaction that PostgreSQL has aborted fails
\* (25P02), and a statement that PostgreSQL rejects aborts the transaction.
Ingest_event(fault) ==
    /\ iTx.at = "loop"
    /\ iTx.i <= Len(iTx.sess)
    /\ LET ev == iTx.sess[iTx.i]
           row == IngestRow(ev, iTx.i)
           reached == ev.text /\ fault # "marshal"
           written == reached /\ fault = "ok" /\ ~iTx.aborted
       IN  /\ iNow' = IF reached /\ ~ev.hasTs THEN iNow + 1 ELSE iNow
           /\ iTx' = [iTx EXCEPT
                  !.i = @ + 1,
                  !.aborted = @ \/ (reached /\ fault = "server"),
                  !.writes = IF written THEN @ \cup {row} ELSE @,
                  !.faults = Append(@, IF ev.text THEN fault ELSE "ok"),
                  !.keys = Append(@, KeyOf(row))]
    /\ UNCHANGED iLog
    /\ UNCHANGED <<searchVars, baseVars, adapterVars, embedVars>>

\* tx.Commit(): the writes become rows and AddSession returns nil; for a
\* transaction that PostgreSQL has aborted the driver rolls back and
\* returns an error, which AddSession returns.
Ingest_commit ==
    /\ iTx.at = "loop"
    /\ iTx.i > Len(iTx.sess)
    /\ mRows' = IF iTx.aborted THEN mRows ELSE UpsertAll(mRows, iTx.writes)
    /\ iLog' = Append(iLog,
                      [sess |-> iTx.sess, faults |-> iTx.faults,
                       keys |-> iTx.keys,
                       ret |-> IF iTx.aborted THEN "err" ELSE "nil",
                       rows |-> {KeyOf(r) : r \in mRows'}])
    /\ iTx' = NoTx
    /\ UNCHANGED <<mSvc, mAdds, mSearch, iNow>>
    /\ UNCHANGED <<baseVars, adapterVars, embedVars>>

NextIngest ==
    \/ \E model \in BOOLEAN : NewPostgresMemoryService(model)
    \/ \E sess \in IngestSessions : Ingest_begin(sess)
    \/ \E fault \in RowFaults : Ingest_event(fault)
    \/ Ingest_commit

InitIngest == Init /\ bufSize = 0
SpecIngest == InitIngest /\ [][NextIngest]_vars

\* ------------------------------------------- what an asyncOp carries
\* asyncOp{opType, sess session.Session, evt *session.Event}: the op holds
\* the session's interface value and the event's pointer.  The content of
\* both is followed as a version number that every change raises.
MaxEdits == 2
RefOpTypes == {"session", "event"}
otherVars == <<persisterVars, cacheVars, redisVars, streamVars, adapterVars,
               memoryVars>>

\* persistSessionSync: `state := sess.State(); maps.Collect(state.All())`;
\* persistEventSync: `sonic.Marshal(evt)`.  Both read through the reference
\* when they run.
ReadThrough(opType) == live[opType]

\* PersistSession / PersistEvent on an open persister: the op is sent when
\* the channel has room, else the sync function runs in the caller.
PersistRef(opType) ==
    /\ Len(opLog) < MaxOps
    /\ IF bufSize > 0 /\ Len(refChan) < bufSize
       THEN /\ refChan' = Append(refChan, Len(opLog) + 1)
            /\ opLog' = Append(opLog, [opType |-> opType, path |-> "queued",
                                       issued |-> live[opType],
                                       edited |-> FALSE,
                                       written |-> {}])
       ELSE /\ opLog' = Append(opLog, [opType |-> opType, path |-> "sync",
                                       issued |-> live[opType],
                                       edited |-> FALSE,
                                       written |-> {ReadThrough(opType)}])
            /\ UNCHANGED refChan
    /\ UNCHANGED live
    /\ UNCHANGED otherVars

\* The owner of the session changes its state (state.Set), or the owner of
\* the event changes the event, while ops pointing at it are queued.
EditLive(opType) ==
    /\ live[opType] < MaxEdits
    /\ live' = [live EXCEPT ![opType] = @ + 1]
    /\ opLog' = [i \in DOMAIN opLog |->
                    IF opLog[i].opType = opType /\ opLog[i].written = {}
                    THEN [opLog[i] EXCEPT !.edited = TRUE]
                    ELSE opLog[i]]
    /\ UNCHANGED refChan
    /\ UNCHANGED otherVars

\* asyncWorker / processAsyncOp: receive the next op and run its sync
\* function, which writes what it reads.
processAsyncOp ==
    /\ refChan # <<>>
    /\ LET id == Head(refChan) IN
       opLog' = [opLog EXCEPT ![id].written = {ReadThrough(opLog[id].opType)}]
    /\ refChan' = Tail(refChan)
    /\ UNCHANGED live
    /\ UNCHANGED otherVars

NextSnapshot ==
    \/ \E opType \in RefOpTypes : PersistRef(opType)
    \/ \E opType \in RefOpTypes : EditLive(opType)
    \/ processAsyncOp

InitSnapshot == Init /\ bufSize = MaxBuf
SpecSnapshot == InitSnapshot /\ [][NextSnapshot]_vars

\* The arguments a call is tried with: none once the call has been made.
ArgsFrom(S) == IF fCall = NoFCall THEN S ELSE {}

NextPure ==
    \/ \E messages \in ArgsFrom(SeqsUpTo(Messages, MaxMsgs)) :
           CallRepair(messages)
    \/ \E callID, respID \in ArgsFrom(SeqsUpTo(IdChars, MaxIdLen)) :
           CallSanitize(callID, respID)
    \/ \E params \in ArgsFrom(SchemaNodes(JsonTypes, {}, MaxDepth)) :
           CallConvertTools(params)
    \/ \E schema \in
               ArgsFrom(SchemaNodes(GenaiTypes, {NilSchema}, MaxDepth)) :
           CallResponseSchema(schema)

InitPure == Init /\ bufSize = 0
SpecPure == InitPure /\ [][NextPure]_vars

\* ------------------------------------- claim vocabulary, streaming part
\* Indices of the chunks that carry text, in arrival order.
TextChunks(chunks) ==
    SelectSeq([i \in 1..Len(chunks) |-> i], LAMBDA i : chunks[i].text)
\* The accumulator of Protocol-B fails on one of the first n chunks.
AccumFailed(n) ==
    gProto = "B" /\ \E i \in 1..n : ~gStream.chunks[i].fits
\* The iterator of a streaming call has returned, the request converted,
\* and the consumer never stopped the iteration (neither by yield's result
\* nor by ctx). A call with stream = false has a reply, gReply.got.
RanToTheEnd ==
    /\ gPc = "done" /\ ~gReply.got
    /\ gStream.params /\ ~gStopped /\ ~gCancelled
IsFinal(item) == item.resp /\ ~item.partial /\ item.tc
IsPartial(item) == item.resp /\ item.partial /\ ~item.tc

\* ---------------------------------------------------------------- C19
\* C19: for both protocols, when the upstream stream ended without error
\* (and the accumulator accepted every event) and the consumer never
\* stopped, the yielded sequence is not empty, every item before the last
\* is a partial response (partial, not turn_complete) and these are the
\* text chunks in arrival order, and the last item, and only it, is the
\* final response (not partial, turn_complete).
C19_Thm ==
    (RanToTheEnd /\ ~gStream.err /\ ~AccumFailed(Len(gStream.chunks))) =>
        /\ gYielded # <<>>
        /\ IsFinal(gYielded[Len(gYielded)])
        /\ \A i \in 1..(Len(gYielded) - 1) : IsPartial(gYielded[i])
        /\ [i \in 1..(Len(gYielded) - 1) |-> gYielded[i].text[1]]
               = TextChunks(gStream.chunks)
\* A Protocol-B call over three events, the second without text, ran to
\* the end: two partial responses and the final one.
C19_Witness ==
    /\ RanToTheEnd /\ ~gStream.err /\ ~AccumFailed(Len(gStream.chunks))
    /\ gProto = "B"
    /\ Len(gStream.chunks) = 3 /\ ~gStream.chunks[2].text
    /\ Len(gYielded) = 3

\* ---------------------------------------------------------------- C20
\* Upstream reported an error: the stream ended in error after all its
\* chunks, or the accumulator of Protocol-B failed on a chunk.
UpstreamFailed ==
    \/ AccumFailed(gPos)
    \/ gPos = Len(gStream.chunks) /\ gStream.err
\* C20: when upstream reported an error after k >= 0 partial responses
\* (and the consumer had not stopped), exactly one item (nil, error) was
\* yielded, it is the last item, and no turn_complete response was
\* yielded.
C20_Thm ==
    (RanToTheEnd /\ UpstreamFailed) =>
        /\ gYielded # <<>>
        /\ gYielded[Len(gYielded)] = ErrItem
        /\ \A i \in 1..(Len(gYielded) - 1) : IsPartial(gYielded[i])
\* A Protocol-A stream broke after two text chunks: two partial responses,
\* then the error.
C20_Witness ==
    /\ RanToTheEnd /\ UpstreamFailed
    /\ gProto = "A" /\ gStream.err
    /\ Len(gYielded) = 3


\* ---------------------------------------------------------------- C21
\* C21: once the consumer has signalled stop, by returning false from
\* yield or by cancelling ctx, nothing more is yielded: no partial
\* response, no final response, no error item (calls whose request does
\* not convert yield their one error item whatever the consumer does and
\* are left out).
C21_NoYieldAfterStop ==
    [][(gStream.params /\ (gStopped \/ gCancelled)) =>
           gYielded' = gYielded]_vars

\* ---------------------------------------------------------------- C22
\* C22: when the generator has returned, on whichever way, the upstream
\* stream handle it opened is released.
C22_HandleReleased == gPc = "done" => ~gOpen


\* ---------------------------------------------------------------- C23
\* The named error of each adapter for an empty reply.
EmptyReplyError(p) ==
    IF p = "A" THEN NamedErr("ErrNoChoicesInResponse")
    ELSE NamedErr("ErrNoContentInResponse")
\* C23: a non-streaming call whose reply came without error and holds no
\* choice (Protocol-A) or no content block (Protocol-B) yields the
\* adapter's named error as (nil, error), and nothing else.
C23_EmptyReply ==
    (gPc = "done" /\ gReply.got /\ ~gReply.err /\ gReply.n = 0) =>
        gYielded = <<EmptyReplyError(gProto)>>


\* ---------------------------------------------------------------- C24
\* The last call was repairMessageHistory.
Repaired == fCall.fn = "repairMessageHistory"
\* C24: in the output of history repair every tool_use block of every
\* assistant message has a tool_result block of the same id in the message
\* that follows it in the output, and that message is a user message.
C24_Thm ==
    Repaired =>
        \A i \in 1..Len(fCall.res) :
            LET msg == fCall.res[i]
            IN  (msg.role = "assistant" /\ msg.uses # {}) =>
                    /\ i < Len(fCall.res)
                    /\ fCall.res[i + 1].role = "user"
                    /\ msg.uses \subseteq fCall.res[i + 1].results
\* The input [assistant{tool_use A, tool_use B}, user{tool_result A}] was
\* repaired to [assistant{tool_use A}, user{tool_result A}].
C24_Witness ==
    /\ Repaired
    /\ Len(fCall.arg) = 2
    /\ fCall.arg[1].role = "assistant" /\ fCall.arg[1].uses = {"A", "B"}
    /\ fCall.arg[2].role = "user" /\ fCall.arg[2].results = {"A"}
    /\ Len(fCall.res) = 2
    /\ fCall.res[1].uses = {"A"} /\ fCall.res[2] = fCall.arg[2]


\* ---------------------------------------------------------------- C25
\* C25: every normalization that has returned gave the id itself when the
\* id is at most 40 bytes long, and otherwise a 40-byte id that starts with
\* tc_, is the same for every call with that id, and that reverse lookup
\* maps back to the id it was produced from, whatever calls are under way.
C25_Thm ==
    \A p \in tProduced :
        /\ p[1].len <= maxToolCallIDLength => p[2] = p[1]
        /\ p[1].len > maxToolCallIDLength =>
               /\ p[2].len = maxToolCallIDLength
               /\ p[2].pre = "tc_"
               /\ denormalizeToolCallID(p[2]) = p[1]
        /\ \A q \in tProduced : q[1] = p[1] => q[2] = p[2]
\* Both long ids have been shortened, to different short ids, one of the
\* two by each goroutine at the same time, while an id of exactly 40 bytes
\* came back as it was.
C25_Witness ==
    /\ \A id \in LongIds : <<id, shortID(id)>> \in tProduced
    /\ \A id \in LongIds : denormalizeToolCallID(shortID(id)) = id
    /\ \E id \in FittingIds :
           id.len = maxToolCallIDLength /\ <<id, id>> \in tProduced
    /\ tpc["g1"].at = "ret" /\ tpc["g2"].at = "ret"
    /\ tpc["g1"].id # tpc["g2"].id


\* ---------------------------------------------------------------- C26
\* The last call converted a function call and a function response.
Sanitized == fCall.fn = "sanitizeToolID"
\* C26: the id sanitization puts on the wire matches [A-Za-z0-9_-]+,
\* whatever the id was (the empty string included); an id that already
\* matches is unchanged; and a function call and a function response with
\* the same id have the same id on the wire.
C26_Thm ==
    Sanitized =>
        /\ \A k \in 1..2 :
               /\ MatchesToolIDPattern(fCall.res[k])
               /\ MatchesToolIDPattern(fCall.arg[k]) =>
                      fCall.res[k] = fCall.arg[k]
        /\ fCall.arg[1] = fCall.arg[2] => fCall.res[1] = fCall.res[2]
\* A call with the empty id and its response with the empty id: both are
\* rewritten, to the same 38-character id that starts with toolu_.
C26_Witness ==
    /\ Sanitized
    /\ fCall.arg = << <<>>, <<>> >>
    /\ fCall.res[1] = fCall.res[2]
    /\ Len(fCall.res[1]) = 6 + 2 * DigestBytes
    /\ SubSeq(fCall.res[1], 1, 6) = <<"t", "o", "o", "l", "u", "_">>


\* ---------------------------------------------------------------- C27
\* Every node of the schema with type "object" has a properties field.
RECURSIVE ObjectsHaveProperties(_)
ObjectsHaveProperties(schema) ==
    /\ schema.type = "object" => schema.hasProps
    /\ \A i \in 1..Len(schema.sub) : ObjectsHaveProperties(schema.sub[i])
\* C27: in every schema the Protocol-A adapter has translated, a tool's
\* parameter schema or a response schema, every node whose type is
\* "object" has a properties field, at every depth.
C27_ObjectsHaveProperties ==
    fCall.fn \in {"convertToFunctionParams", "convertSchema"} =>
        ObjectsHaveProperties(fCall.res)


\* ---------------------------------------------------------------- C28
\* C28: after construction the client's dimension changes at most once,
\* and only from 0 to the length of a non-empty vector that an Embed call
\* returned without error; a non-zero dimension given at construction is
\* never replaced, whatever Embed calls run and however they interleave.
C28_Thm ==
    eMade =>
        /\ Len(dimLog) <= 1
        /\ ePreset # 0 => dimLog = <<>> /\ dim = ePreset
        /\ dimLog # <<>> =>
               /\ ePreset = 0
               /\ dim = dimLog[1]
               /\ dim > 0
               /\ dim \in eReturned
        /\ (ePreset = 0 /\ dimLog = <<>>) => dim = 0
\* Two Embed calls loaded dim = 0 and received vectors of lengths 2 and
\* 3: the compare-and-swap of the first has set the dimension to 2 and the
\* call has returned; the other call is at its compare-and-swap, which will
\* find dim = 2.
C28_Witness ==
    /\ eMade /\ ePreset = 0
    /\ dimLog = <<2>> /\ dim = 2
    /\ 2 \in eReturned
    /\ \E g \in EGo : epc[g] = [at |-> "cas", len |-> 3]


\* ---------------------------------------------------------------- C29
\* C29: the rows a Search holds after any of its stages, and the rows of
\* its response, were all ingested under the request's app name and user
\* id; no row of another user of the app, and none of the same user id
\* under another app.
C29_Thm ==
    \A r \in mSearch.rows :
        r.app = mSearch.req.app /\ r.user = mSearch.req.user
\* A full-text search answered with rows, while the table also holds
\* matching rows of another user of the same app and of the same user id
\* under another app.
C29_Witness ==
    /\ mSearch.at = "done" /\ ~mSearch.err
    /\ mSearch.rows # {}
    /\ mSearch.ran[Len(mSearch.ran)].stage = "text"
    /\ \E r \in mRows :
           r.match /\ r.app = mSearch.req.app /\ r.user # mSearch.req.user
    /\ \E r \in mRows :
           r.match /\ r.app # mSearch.req.app /\ r.user = mSearch.req.user


\* ---------------------------------------------------------------- C30
\* The Search has returned a response.
Answered == mSearch.at = "done" /\ ~mSearch.err
\* The stages the Search ran, in the order it ran them.
StagesRun == [i \in 1..Len(mSearch.ran) |-> mSearch.ran[i].stage]
Ran(name) == \E i \in 1..Len(mSearch.ran) : mSearch.ran[i].stage = name
\* The vector stage ran and returned rows.
VectorAnswered ==
    \E i \in 1..Len(mSearch.ran) :
        mSearch.ran[i].stage = "vector" /\ mSearch.ran[i].n > 0
\* The stages run in the order vector, full-text, recency; the vector stage
\* only with an embedding model and a query; the full-text stage only
\* with a query and no rows from the vector stage; the response is the
\* result of the last stage and has 10 entries at most.
CascadeOrder ==
    Answered =>
        /\ StagesRun \in {<<"vector">>, <<"text">>, <<"recent">>,
                           <<"vector", "text">>, <<"vector", "recent">>,
                           <<"text", "recent">>,
                           <<"vector", "text", "recent">>}
        /\ Ran("vector") => mSvc.model /\ mSearch.req.query # ""
        /\ Ran("text") => ~VectorAnswered /\ mSearch.req.query # ""
        /\ Cardinality(mSearch.rows) = mSearch.ran[Len(mSearch.ran)].n
        /\ Cardinality(mSearch.rows) <= searchLimit
\* C30: Search runs its stages in the order vector, full-text, recency, the
\* vector stage only with an embedding model and a non-empty query, the
\* full-text stage only with a non-empty query when the vector stage gave
\* no rows or was skipped, the recency stage otherwise, that is when the
\* vector stage gave no rows and the full-text stage is not the one to run;
\* the response is the result of the last stage that ran, 10 entries at
\* most.
C30_Cascade ==
    /\ CascadeOrder
    /\ Answered => (Ran("recent") <=> (~VectorAnswered /\ ~Ran("text")))


\* ---------------------------------------------------------------- C38
\* C38: in the output of history repair every tool_result block of a user
\* message has a tool_use block of the same id in the message just before
\* it in the output, and that message is an assistant message (the other
\* direction is C24).
C38_ResultsHaveUses ==
    Repaired =>
        \A i \in 1..Len(fCall.res) :
            LET msg == fCall.res[i]
            IN  (msg.role = "user" /\ msg.results # {}) =>
                    /\ i > 1
                    /\ fCall.res[i - 1].role = "assistant"
                    /\ msg.results \subseteq fCall.res[i - 1].uses

\* ---------------------------------------------------------------- C39
\* What history repair has to leave alone in a message list: every message
\* without the tool_use blocks of the assistant messages, the messages
\* that then have no block left out.
Untouchable(messages) ==
    SelectSeq([i \in 1..Len(messages) |->
                  IF messages[i].role = "assistant"
                  THEN [messages[i] EXCEPT !.uses = {}] ELSE messages[i]],
              LAMBDA m : m.other \/ m.uses # {} \/ m.results # {})
\* C39: history repair removes only tool_use blocks of assistant messages
\* and assistant messages left without a block: the user messages and the
\* text, image and tool_result blocks of the input are in the output,
\* unchanged and in the same order, and no message of the output has a
\* tool_use block the input message did not have.
C39_Thm ==
    Repaired =>
        /\ Untouchable(fCall.res) = Untouchable(fCall.arg)
        /\ SelectSeq(fCall.res, LAMBDA m : m.role = "user")
               = SelectSeq(fCall.arg, LAMBDA m : m.role = "user")
        /\ \A i \in 1..Len(fCall.res) :
               \E j \in i..Len(fCall.arg) :
                   /\ fCall.res[i].role = fCall.arg[j].role
                   /\ fCall.res[i].uses \subseteq fCall.arg[j].uses
                   /\ fCall.res[i].results = fCall.arg[j].results
                   /\ fCall.res[i].other = fCall.arg[j].other
\* An assistant message with text and an unanswered tool_use, an assistant
\* message with an unanswered tool_use only, and a user message with text:
\* the first lost its tool_use and kept its text, the second was dropped,
\* the third is as it was.
C39_Witness ==
    /\ Repaired
    /\ Len(fCall.arg) = 3 /\ Len(fCall.res) = 2
    /\ fCall.arg[1] = [role |-> "assistant", uses |-> {"A"},
                       results |-> {}, other |-> TRUE]
    /\ fCall.arg[2] = [role |-> "assistant", uses |-> {"B"},
                       results |-> {}, other |-> FALSE]
    /\ fCall.arg[3] = [role |-> "user", uses |-> {}, results |-> {},
                       other |-> TRUE]
    /\ fCall.res[1] = [fCall.arg[1] EXCEPT !.uses = {}]
    /\ fCall.res[2] = fCall.arg[3]

\* ---------------------------------------------------------------- C40
\* C40: history repair is idempotent: repairing the output of a repair
\* gives that output again.
C40_Thm == Repaired => repairMessageHistory(fCall.res) = fCall.res
\* A repair that dropped an emptied assistant message from between two
\* messages, which made an assistant message and a user message with
\* tool_result blocks adjacent; a second repair changes nothing.
C40_Witness ==
    /\ Repaired
    /\ Len(fCall.arg) = 3 /\ Len(fCall.res) = 2
    /\ fCall.arg[1].role = "assistant" /\ fCall.arg[1].other
    /\ fCall.arg[2].role = "assistant" /\ fCall.arg[2].uses # {}
    /\ fCall.arg[3].role = "user" /\ fCall.arg[3].results # {}
    /\ fCall.res[1].role = "assistant" /\ fCall.res[2] = fCall.arg[3]
    /\ repairMessageHistory(fCall.res) = fCall.res


\* ---------------------------------------------------------------- C31
\* The table holds a row of the request's app and user that matches the
\* request's query.
SomeRowMatches ==
    \E r \in mRows :
        /\ r.app = mSearch.req.app /\ r.user = mSearch.req.user
        /\ r.match /\ mSearch.req.query = "q"
\* C31: a Search with a non-empty query that no stored row of the request's
\* app and user matches is answered with zero memories.
C31_NoMatchNoMemories ==
    (Answered /\ mSearch.req.query # "" /\ ~SomeRowMatches) =>
        mSearch.rows = {}


\* ---------------------------------------------------------------- C32
\* Call k of AddSession went through without a failed row.
CleanCall(k) ==
    /\ iLog[k].ret = "nil"
    /\ \A i \in 1..Len(iLog[k].faults) : iLog[k].faults[i] = "ok"
\* C32: when AddSession is called twice with the same session, the table
\* has as many rows after the second call as after the first, whether or
\* not the events have an ID and a timestamp of their own.
C32_SameRowCount ==
    (/\ Len(iLog) = 2
     /\ iLog[1].sess = iLog[2].sess
     /\ CleanCall(1) /\ CleanCall(2)) =>
        Cardinality(iLog[2].rows) = Cardinality(iLog[1].rows)


\* ---------------------------------------------------------------- C33
\* The row of event j of call k failed: its content could not be
\* serialized, or its statement returned an error.
RowFailed(k, j) == iLog[k].faults[j] # "ok"
\* C33: when the row of one event fails in AddSession, the call returns
\* no error and the rows of all other events with text are in the table
\* after it.
C33_OthersCommitted ==
    \A k \in 1..Len(iLog) :
        \A j \in 1..Len(iLog[k].sess) :
            (/\ RowFailed(k, j)
             /\ \A i \in 1..Len(iLog[k].sess) : i # j => ~RowFailed(k, i)) =>
                /\ iLog[k].ret = "nil"
                /\ \A i \in 1..Len(iLog[k].sess) :
                       (i # j /\ iLog[k].sess[i].text) =>
                           iLog[k].keys[i] \in iLog[k].rows

\* C34: what an async op writes is the session state, or the event, as it
\* was when PersistSession / PersistEvent was called: an op that went
\* through the channel has written the content it was issued with, also
\* when the content was changed between the call and the write.
C34_WritesIssuedContent ==
    \A i \in DOMAIN opLog :
        (opLog[i].path = "queued" /\ opLog[i].written # {})
            => opLog[i].written = {opLog[i].issued}

\* The last call of client c was an AppendEvent that has returned ret.
AppendReturned(c, ret) ==
    /\ rpc[c] = "idle"
    /\ rCall[c].kind = "append"
    /\ rRes[c].kind = "append" /\ rRes[c].n = rCall[c].n
    /\ rRes[c].ret = ret
\* The event of the call of client c is in the events list.
InList(c) == \E i \in DOMAIN rList : rList[i].eid = rCall[c].ev.eid

\* C35: the envelope update of AppendEvent replaces the whole stored state
\* with the calling handle's map: whenever the SET of an AppendEvent has run,
\* the stored state is exactly the marshaled map of the handle the call was
\* made through (a key the handle does not hold is gone, whatever the
\* envelope held), and the call's event is in the events list.
C35_Thm ==
    [][\A c \in RClients :
          (rpc[c] = "ae_set" /\ rpc'[c] = "idle")
              => /\ rRec'.state = MarshalState(rHandle.st[rCall[c].h])
                 /\ \E i \in DOMAIN rList' : rList'[i].eid = rCall[c].ev.eid]_vars

\* C35, the interleaving: two AppendEvent calls through two handles have
\* both returned nil, both events are in the list, and a key that one of
\* the handles held when its call was made is missing from the envelope.
C35_Witness ==
    \E c1, c2 \in RClients : \E k \in StateKeys :
        /\ c1 # c2
        /\ AppendReturned(c1, "ok") /\ AppendReturned(c2, "ok")
        /\ rCall[c1].h # rCall[c2].h
        /\ InList(c1) /\ InList(c2)
        /\ rCall[c1].st[k] = "str"
        /\ rRec.live /\ rRec.state[k] = Absent

\* C36: an AppendEvent on a session whose envelope is not in the cache
\* returns an error and leaves the cache unchanged: when the call has
\* returned the error and no key was removed since it started, its event
\* is not in the events list.
C36_FailedAppendLeavesCache ==
    \A c \in RClients :
        (AppendReturned(c, "err") /\ ~Disturbed(c)) => ~InList(c)

\* C37: when every state.set call on the one handle of a session has
\* returned and nothing else wrote to the session since its Create, the
\* state stored in the envelope is the handle's local map: every key set
\* is present with its latest value.
C37_StoredIsLocal ==
    (/\ \A c \in RClients : rpc[c] = "idle"
     /\ Returned = {1}
     /\ rPushed = <<>>
     /\ rRec.live)
        => rRec.state = MarshalState(rHandle.st[1])

====
